---- MODULE Spec2Model ----
(***************************************************************************)
(* A model of the trace-analysis core of perf-analysis-tools:              *)
(*   - Event::generate_merged_events   (src/src/summary.rs)                *)
(*   - Analysis::summary               (src/src/summary.rs)                *)
(*   - the "time since anchor" metrics (src/src/chromium.rs, servo.rs)     *)
(* Each component has its own specification (SpecMerge, SpecSummary,       *)
(* SpecMetric); the variables of the other components stay idle.           *)
(***************************************************************************)
EXTENDS Integers, Sequences, FiniteSets, TLC

VARIABLES
    overflow_checks,  \* build profile: TRUE = integer overflow panics (debug),
                      \* FALSE = integer overflow wraps (release)
    events,           \* the Events handed to generate_merged_events, in order
    merged,           \* what generate_merged_events returned for `events`
    individuals,      \* Analysis.individuals, each reduced to getter(x).into()
    summary,          \* what Analysis::summary returned for `individuals`
    engine,           \* which SampleAnalysis (chromium.rs or servo.rs) is used
    relevant_events,  \* SampleAnalysis.relevant_events of that engine
    metric,           \* what the relative metric returned for relevant_events
    traceEvents,      \* JsonTrace.traceEvents of one sample, in file order
    packets,          \* Trace.packet of one Perfetto trace, in file order
    window_TRACES,    \* the entries of window.TRACES of one HTML trace
    analysis,         \* what analysing that sample returned, with its locals
    paths,            \* the sample files handed to analyse_samples, in order
    samples,          \* what analyse_samples returned for `paths`
    sample_dir,       \* the files of one Chromium sample directory
    pc,               \* where analyse_sample stands in that directory
    convert_jobs,     \* the (pftrace_path, json_path) pairs it scheduled
    traceconv_results,\* the state of each scheduled job, in job order
    conversions,      \* the json_path of every traceconv spawned, in order
    outcome           \* what analyse_sample returned for that directory

mergeVars   == <<events, merged>>
summaryVars == <<individuals, summary>>
metricVars  == <<engine, relevant_events, metric>>
sampleVars  == <<traceEvents, packets, window_TRACES, analysis>>
batchVars   == <<paths, samples>>
convertVars ==
    <<sample_dir, pc, convert_jobs, traceconv_results, conversions, outcome>>
vars        ==
    <<overflow_checks, mergeVars, summaryVars, metricVars, sampleVars, batchVars,
      convertVars>>

(***************************************************************************)
(* Bounds of the model.                                                    *)
(***************************************************************************)
MaxEvents == 2      \* longest input of generate_merged_events
MaxTime == 2        \* largest Event.start
MaxDur == 2         \* largest Event.duration
MaxSamples == 3     \* most Samples of an Analysis
MaxValue == 2       \* largest projected value of a Sample, in seconds
MaxTraceEvents == 3 \* longest relevant_events of a SampleAnalysis
MaxScopeEvents == 3 \* longest traceEvents of a JSON trace
MaxScopeTime == 1   \* largest TraceEvent.ts of a JSON trace
MaxPackets == 4     \* most packets of a Perfetto trace
MaxPacketTime == 1  \* largest TracePacket.timestamp
MaxHtmlEvents == 3  \* most entries of window.TRACES
MaxSlices == 3      \* most slices of a well-formed Perfetto trace
MaxDualEvents == 2  \* most entries of either trace of a dual-trace sample
MaxPaths == 3       \* most sample files of a batch
MaxStackPackets == 4 \* most packets of a trace of SpecStack
MaxHtmlTime == 2    \* largest startTime and endTime of an entry
MaxLoadTime == 3    \* largest timestamp of a milestone of the page load
MaxDigits == 3      \* most digits before the point of a value to format, less one
MaxTraces == 2      \* most pftrace files of a sample directory

(***************************************************************************)
(* Option<T>: None is the empty sequence, Some(x) the one-element one.     *)
(***************************************************************************)
None == << >>
Some(x) == <<x>>
IsSome(o) == Len(o) = 1
Unwrap(o) == o[1]

NotCalled == [kind |-> "NotCalled"]
Panic == [kind |-> "Panic"]
Err(msg) == [kind |-> "Err", msg |-> msg]

(***************************************************************************)
(* usize / u64 arithmetic.  A value is kept as an integer z that stands    *)
(* for z mod 2^64: a negative z is the wrapped value 2^64 + z.  With       *)
(* overflow checks a subtraction below zero panics instead.                *)
(***************************************************************************)
SubOverflows(a, b) == a - b < 0
IsZero(z) == z = 0
IsPositive(z) == z # 0     \* as unsigned: every nonzero residue is > 0

(***************************************************************************)
(* BTreeMap<String, DebugAnnotation>: a function from its keys.            *)
(***************************************************************************)
MetaKeys == {"foo"}
MetaVals == {1, 2}
EmptyMap == [k \in {} |-> 0]
Metadatas == UNION {[S -> MetaVals] : S \in SUBSET MetaKeys}

\* BTreeMap::extend: every entry of m2 is inserted, replacing m's on a key clash
MapExtend(m, m2) ==
    [k \in (DOMAIN m) \cup (DOMAIN m2) |->
        IF k \in DOMAIN m2 THEN m2[k] ELSE m[k]]

(***************************************************************************)
(* summary.rs: Event                                                       *)
(***************************************************************************)
Event(name, start, duration, metadata) ==
    [name |-> name, start |-> start, duration |-> duration,
     metadata |-> metadata]

EventEndUnitInstant(e) ==
    IF IsSome(e.duration) THEN e.start + Unwrap(e.duration) ELSE e.start + 1

\* Event::end
EventEnd(e) ==
    IF IsSome(e.duration) THEN e.start + Unwrap(e.duration) ELSE e.start

\* edges.entry(t).or_default().push(edge)
PushEdge(edges, t, edge) ==
    IF t \in DOMAIN edges
    THEN [edges EXCEPT ![t] = Append(@, edge)]
    ELSE [u \in (DOMAIN edges) \cup {t} |->
            IF u = t THEN <<edge>> ELSE edges[u]]

\* a first loop that pushes the End edge of an Event before its Start edge
RECURSIVE CollectEdgesEndFirst(_, _, _, _)
CollectEdgesEndFirst(evs, i, edges, metadata) ==
    IF i > Len(evs)
    THEN [edges |-> edges, metadata |-> metadata]
    ELSE LET event == evs[i]
             e1 == PushEdge(edges, EventEnd(event), "End")
             e2 == PushEdge(e1, event.start, "Start")
         IN  CollectEdgesEndFirst(evs, i + 1, e2,
                                  MapExtend(metadata, event.metadata))

\* the first loop of generate_merged_events, from event i on
RECURSIVE CollectEdges(_, _, _, _)
CollectEdges(evs, i, edges, metadata) ==
    IF i > Len(evs)
    THEN [edges |-> edges, metadata |-> metadata]
    ELSE LET event == evs[i]
             e1 == PushEdge(edges, event.start, "Start")
             e2 == PushEdge(e1, EventEnd(event), "End")
         IN  CollectEdges(evs, i + 1, e2, MapExtend(metadata, event.metadata))

\* the inner loop: the edges of one timestamp applied to the active count
RECURSIVE ApplyEdges(_, _, _, _)
ApplyEdges(count, group, i, checks) ==
    IF i > Len(group)
    THEN [ok |-> TRUE, count |-> count]
    ELSE IF group[i] = "Start"
         THEN ApplyEdges(count + 1, group, i + 1, checks)
         ELSE IF SubOverflows(count, 1) /\ checks
              THEN [ok |-> FALSE, count |-> count]
              ELSE ApplyEdges(count - 1, group, i + 1, checks)

SweepInit ==
    [outcome |-> "Running", result |-> << >>, active_count |-> 0,
     start_time |-> None]

\* the body of the outer loop once new_active_count is known
Transition(st, time, new_active_count, merged_name, metadata) ==
    IF IsPositive(st.active_count) /\ IsZero(new_active_count)
    THEN IF ~IsSome(st.start_time)
         THEN [st EXCEPT !.outcome = "Err"]
         ELSE IF time < Unwrap(st.start_time)
              THEN [st EXCEPT !.outcome = "Panic"]
              ELSE [st EXCEPT
                      !.result = Append(@,
                          Event(merged_name, Unwrap(st.start_time),
                                Some(time - Unwrap(st.start_time)), metadata)),
                      !.active_count = new_active_count]
    ELSE IF IsZero(st.active_count) /\ IsPositive(new_active_count)
         THEN [st EXCEPT !.start_time = Some(time),
                         !.active_count = new_active_count]
         ELSE [st EXCEPT !.active_count = new_active_count]

\* a sweep that looks at the active count after every single edge
RECURSIVE SweepGroupPerEdge(_, _, _, _, _, _)
SweepGroupPerEdge(st, time, group, merged_name, metadata, checks) ==
    IF group = << >> \/ st.outcome # "Running"
    THEN st
    ELSE LET one == ApplyEdges(st.active_count, <<Head(group)>>, 1, checks)
         IN  IF ~one.ok
             THEN [st EXCEPT !.outcome = "Panic"]
             ELSE SweepGroupPerEdge(
                      Transition(st, time, one.count, merged_name, metadata),
                      time, Tail(group), merged_name, metadata, checks)

\* one iteration of `for (time, edges) in edges`
SweepGroup(st, time, group, merged_name, metadata, checks) ==
    LET applied == ApplyEdges(st.active_count, group, 1, checks)
    IN  IF ~applied.ok
        THEN [st EXCEPT !.outcome = "Panic"]
        ELSE Transition(st, time, applied.count, merged_name, metadata)

MinOf(S) == CHOOSE x \in S : \A y \in S : x <= y

\* the outer loop: BTreeMap iteration visits the timestamps in ascending order
RECURSIVE Sweep(_, _, _, _, _, _)
Sweep(st, edges, times, merged_name, metadata, checks) ==
    IF times = {} \/ st.outcome # "Running"
    THEN st
    ELSE LET time == MinOf(times)
         IN  Sweep(SweepGroup(st, time, edges[time], merged_name, metadata,
                              checks),
                   edges, times \ {time}, merged_name, metadata, checks)

\* Event::generate_merged_events
GenerateMergedEvents(evs, merged_name, checks) ==
    LET collected == CollectEdges(evs, 1, EmptyMap, EmptyMap)
        final == Sweep(SweepInit, collected.edges, DOMAIN collected.edges,
                       merged_name, collected.metadata, checks)
    IN  CASE final.outcome = "Panic" -> Panic
          [] final.outcome = "Err" -> Err("No start time")
          [] OTHER -> [kind |-> "Ok", events |-> final.result]

(***************************************************************************)
(* f64 values.  A finite value is an exact fraction in lowest terms; NaN   *)
(* and +inf are the IEEE results of 0.0/0.0 and x/0.0; sqrt stays          *)
(* symbolic.  Rounding is not modelled: the values are small integers.     *)
(***************************************************************************)
RECURSIVE GCD(_, _)
GCD(a, b) == IF b = 0 THEN a ELSE GCD(b, a % b)
Abs(a) == IF a < 0 THEN -a ELSE a
NaN == [k |-> "nan"]
Inf == [k |-> "inf"]
Tiny == [k |-> "tiny"]     \* a positive value divided by about 2^64
Frac(a, b) ==
    LET g == GCD(Abs(a), b)
    IN  [k |-> "num", n |-> a \div g, d |-> b \div g]
IsNum(x) == x.k = "num"
FAdd(x, y) ==
    IF IsNum(x) /\ IsNum(y) THEN Frac(x.n * y.d + y.n * x.d, x.d * y.d)
    ELSE NaN
FSub(x, y) ==
    IF IsNum(x) /\ IsNum(y) THEN Frac(x.n * y.d - y.n * x.d, x.d * y.d)
    ELSE NaN
FMul(x, y) ==
    IF IsNum(x) /\ IsNum(y) THEN Frac(x.n * y.n, x.d * y.d) ELSE NaN
\* x / (m as f64), m an unsigned integer (negative: the wrapped 2^64 + m)
FDivUsize(x, m) ==
    CASE ~IsNum(x) -> NaN
      [] m = 0 -> IF x.n = 0 THEN NaN ELSE Inf
      [] m < 0 -> IF x.n = 0 THEN Frac(0, 1) ELSE Tiny
      [] OTHER -> Frac(x.n, x.d * m)
FSqrt(x) == IF IsNum(x) THEN [k |-> "sqrt", of |-> x] ELSE x
FLessEq(x, y) == x.n * y.d <= y.n * x.d     \* total_cmp on finite values

RECURSIVE FSum(_, _)
FSum(xs, i) == IF i > Len(xs) THEN Frac(0, 1) ELSE FAdd(xs[i], FSum(xs, i + 1))

\* .filter_map(|x| getter(x).into()).collect::<Vec<f64>>()
RECURSIVE FilterMap(_, _)
FilterMap(inds, i) ==
    IF i > Len(inds) THEN << >>
    ELSE IF IsSome(inds[i])
         THEN <<Frac(Unwrap(inds[i]), 1)>> \o FilterMap(inds, i + 1)
         ELSE FilterMap(inds, i + 1)

SquaredDeviations(xs, mean) ==
    [i \in 1..Len(xs) |-> FMul(FSub(xs[i], mean), FSub(xs[i], mean))]

\* min_by / max_by with total_cmp: None on an empty Vec
MinBy(xs) ==
    IF xs = << >> THEN None
    ELSE Some(CHOOSE x \in {xs[i] : i \in 1..Len(xs)} :
                  \A i \in 1..Len(xs) : FLessEq(x, xs[i]))
MaxBy(xs) ==
    IF xs = << >> THEN None
    ELSE Some(CHOOSE x \in {xs[i] : i \in 1..Len(xs)} :
                  \A i \in 1..Len(xs) : FLessEq(xs[i], x))

\* Analysis::summary
AnalysisSummary(inds, checks) ==
    LET xs == FilterMap(inds, 1)
        n == Len(xs)
        mean == FDivUsize(FSum(xs, 1), n)
        stdev == FSqrt(FDivUsize(FSum(SquaredDeviations(xs, mean), 1), n - 1))
        min == MinBy(xs)
        max == MaxBy(xs)
    IN  IF SubOverflows(n, 1) /\ checks THEN Panic
        ELSE IF ~IsSome(min) THEN Err("No minimum")
        ELSE IF ~IsSome(max) THEN Err("No maximum")
        ELSE [kind |-> "Ok", n |-> Len(inds), mean |-> mean,
              stdev |-> stdev, min |-> Unwrap(min), max |-> Unwrap(max)]

(***************************************************************************)
(* The relative ("time since anchor") metrics.  A Duration counts          *)
(* nanoseconds.                                                            *)
(***************************************************************************)
FromMicros(us) == us * 1000
FromNanos(ns) == ns

\* chromium.rs: the fields of json::TraceEvent the metrics read
TraceEvent(name, ts, dur) == [name |-> name, ts |-> ts, dur |-> dur]

\* chromium.rs METRICS and servo.rs METRICS: (result_name, target name)
ChromiumMetrics == {<<"FP", "firstPaint">>, <<"FCP", "firstContentfulPaint">>}
ServoMetrics ==
    {<<"FP", "TimeToFirstPaint">>, <<"FCP", "TimeToFirstContentfulPaint">>,
     <<"TTI", "TimeToInteractive">>}

\* SampleAnalysis::ts_by_name (chromium.rs)
RECURSIVE TsByName(_, _, _)
TsByName(evs, name, i) ==
    IF i > Len(evs) THEN << >>
    ELSE IF evs[i].name = name
         THEN <<evs[i].ts>> \o TsByName(evs, name, i + 1)
         ELSE TsByName(evs, name, i + 1)

\* SampleAnalysis::unique_instantaneous_event_from (chromium.rs)
UniqueInstantaneousEventFrom(evs, result_name, start_name, stop_name, checks) ==
    LET starts == TsByName(evs, start_name, 1)
        stops == TsByName(evs, stop_name, 1)
    IN  IF Len(starts) # 1
        THEN Err("Expected exactly one event with name " \o start_name)
        ELSE IF Len(stops) # 1
        THEN Err("Expected exactly one event with name " \o stop_name)
        ELSE IF SubOverflows(stops[1], starts[1]) /\ checks
        THEN Panic
        ELSE [kind |-> "Ok",
              event |-> Event(result_name, FromMicros(starts[1]),
                              Some(FromMicros(stops[1] - starts[1])),
                              EmptyMap)]

\* the index of the last Event named `name`, 0 if there is none
RECURSIVE FindLast(_, _, _)
FindLast(evs, name, i) ==
    IF i > Len(evs) THEN 0
    ELSE LET later == FindLast(evs, name, i + 1)
         IN  IF later # 0 THEN later
             ELSE IF evs[i].name = name THEN i ELSE 0

\* relevant_events.iter().find(|e| e.name == name): the index of the first
\* Event named `name` from i on, 0 if there is none
RECURSIVE Find(_, _, _)
Find(evs, name, i) ==
    IF i > Len(evs) THEN 0
    ELSE IF evs[i].name = name THEN i ELSE Find(evs, name, i + 1)

\* relevant_events.iter().filter(|e| e.name == name).collect()
FilterByName(evs, name) == SelectSeq(evs, LAMBDA e : e.name = name)

\* SampleAnalysis::unique_instantaneous_event_from_first_parse (servo.rs)
UniqueInstantaneousEventFromFirstParse(evs, result_name, name) ==
    LET first == Find(evs, "ScriptParseHTML", 1)
        matching_events == FilterByName(evs, name)
    IN  IF first = 0 THEN Err("No events with category ScriptParseHTML")
        ELSE IF Len(matching_events) = 0 THEN [kind |-> "None"]
        ELSE IF Len(matching_events) # 1
        THEN Err("Expected exactly one event with name " \o name)
        ELSE LET first_parse_event == evs[first]
                 event == matching_events[1]
             IN  IF IsSome(event.duration)
                 THEN Err("Event is not instantaneous")
                 ELSE IF event.start < first_parse_event.start
                 THEN Err("Event is earlier than first ScriptParseHTML event")
                 ELSE [kind |-> "Some",
                       event |-> Event(result_name, first_parse_event.start,
                                       Some(event.start
                                            - first_parse_event.start),
                                       event.metadata)]

\* Option<T>::cmp: None is less than every Some
OptionLessEq(a, b) ==
    IF ~IsSome(a) THEN TRUE
    ELSE IF ~IsSome(b) THEN FALSE ELSE Unwrap(a) <= Unwrap(b)
\* sort_by(|p, q| p.ts.cmp(&q.ts).then(p.dur.cmp(&q.dur))): p may precede q
MayPrecede(pt, pd, qt, qd) == pt < qt \/ (pt = qt /\ OptionLessEq(pd, qd))

(***************************************************************************)
(* sum_duration.  A chromium `dur` counts microseconds in a usize, which   *)
(* is kept 20 bits wide: UsizeLimit stands for the usize modulus 2^64.     *)
(***************************************************************************)
UsizeLimit == 1048576

\* SampleAnalysis::dur_by_name (chromium.rs and servo.rs)
RECURSIVE DurByName(_, _, _)
DurByName(evs, name, i) ==
    IF i > Len(evs) THEN << >>
    ELSE LET e == evs[i]
             d == IF "dur" \in DOMAIN e THEN e.dur ELSE e.duration
         IN  IF e.name = name /\ IsSome(d)
             THEN <<Unwrap(d)>> \o DurByName(evs, name, i + 1)
             ELSE DurByName(evs, name, i + 1)

\* iter().sum::<usize>(): panics on overflow with overflow checks, wraps
\* without them
RECURSIVE SumUsize(_, _, _, _)
SumUsize(xs, i, acc, checks) ==
    IF i > Len(xs) THEN [ok |-> TRUE, total |-> acc]
    ELSE IF acc + xs[i] >= UsizeLimit /\ checks
         THEN [ok |-> FALSE, total |-> acc]
         ELSE SumUsize(xs, i + 1, (acc + xs[i]) % UsizeLimit, checks)

\* SampleAnalysis::sum_duration (chromium.rs); result.try_into() turns a
\* usize into a u64 and cannot fail on a 64-bit target
SumDurationChromium(evs, name, checks) ==
    LET sum == SumUsize(DurByName(evs, name, 1), 1, 0, checks)
    IN  IF ~sum.ok THEN Panic
        ELSE [kind |-> "Ok", value |-> FromMicros(sum.total)]

\* iter().sum::<Duration>(): a Duration holds up to 2^64 seconds, which no
\* sum of MaxTraceEvents durations of at most 2^64 nanoseconds reaches
RECURSIVE SumDurations(_, _)
SumDurations(xs, i) == IF i > Len(xs) THEN 0 ELSE xs[i] + SumDurations(xs, i + 1)

\* SampleAnalysis::sum_duration (servo.rs): returns a Duration, no Result
SumDurationServo(evs, name) ==
    [kind |-> "Ok", value |-> SumDurations(DurByName(evs, name, 1), 1)]

(***************************************************************************)
(* Scope resolution of a generic (Chromium JSON) trace: analyse_sample     *)
(* from the sort of all_events to ts_start.                                *)
(***************************************************************************)
\* json::TraceEvent with the fields analyse_sample reads
JsonTraceEvent(name, cat, ts, dur, args) ==
    [name |-> name, cat |-> cat, ts |-> ts, dur |-> dur, args |-> args]
\* the object under args.data or args.beginData
Data(documentLoaderURL, navigationId, frame) ==
    [documentLoaderURL |-> documentLoaderURL, navigationId |-> navigationId,
     frame |-> frame]
Args(data, beginData, frame) ==
    [data |-> data, beginData |-> beginData, frame |-> frame]

\* Option::and_then for the field f of an optional object
AndThenGet(o, f) == IF IsSome(o) THEN Unwrap(o)[f] ELSE None
\* Option::or
OrElse(a, b) == IF IsSome(a) THEN a ELSE b
\* Option::zip
Zip(a, b) == IF IsSome(a) /\ IsSome(b) THEN Some(<<Unwrap(a), Unwrap(b)>>) ELSE None

\* TraceEvent::document_loader_url, ::navigation_id, ::frame
DocumentLoaderUrl(e) == AndThenGet(e.args.data, "documentLoaderURL")
NavigationId(e) == AndThenGet(e.args.data, "navigationId")
Frame(e) ==
    OrElse(AndThenGet(OrElse(e.args.data, e.args.beginData), "frame"),
           e.args.frame)

\* all_events.sort_by(ts, then dur): a stable sort
RECURSIVE InsertSorted(_, _, _)
InsertSorted(sorted, e, i) ==
    IF i > Len(sorted) THEN Append(sorted, e)
    ELSE IF MayPrecede(sorted[i].ts, sorted[i].dur, e.ts, e.dur)
         THEN InsertSorted(sorted, e, i + 1)
         ELSE SubSeq(sorted, 1, i - 1) \o <<e>> \o SubSeq(sorted, i, Len(sorted))
RECURSIVE SortByTsDur(_, _, _)
SortByTsDur(evs, i, sorted) ==
    IF i > Len(evs) THEN sorted
    ELSE SortByTsDur(evs, i + 1, InsertSorted(sorted, evs[i], 1))

\* a find that takes the last Occurrence with the URL
RECURSIVE FindLastByUrl(_, _, _)
FindLastByUrl(evs, url, i) ==
    LET rest == IF i > Len(evs) THEN None ELSE FindLastByUrl(evs, url, i + 1)
    IN  IF i > Len(evs) THEN None
        ELSE IF IsSome(rest) THEN rest
             ELSE IF DocumentLoaderUrl(evs[i]) = Some(url) THEN Some(evs[i])
                  ELSE None

\* all_events.iter().find(|e| e.document_loader_url() == Some(&url))
RECURSIVE FindByUrl(_, _, _)
FindByUrl(evs, url, i) ==
    IF i > Len(evs) THEN None
    ELSE IF DocumentLoaderUrl(evs[i]) = Some(url) THEN Some(evs[i])
         ELSE FindByUrl(evs, url, i + 1)

\* the filter of relevant_events: navigation id or frame of the anchor
InScope(e, navigation_id, frame) ==
    NavigationId(e) = Some(navigation_id) \/ Frame(e) = Some(frame)

\* indices_by_event_name[name]: the indices of the Events named `name`
RECURSIVE IndicesByEventName(_, _, _)
IndicesByEventName(evs, name, i) ==
    IF i > Len(evs) THEN << >>
    ELSE IF evs[i].name = name
         THEN <<i>> \o IndicesByEventName(evs, name, i + 1)
         ELSE IndicesByEventName(evs, name, i + 1)

DuplicatedEventNames ==
    {"navigationStart", "responseEnd", "domLoading", "domInteractive",
     "domContentLoadedEventStart", "domContentLoadedEventEnd", "domComplete"}
IsDuplicatedEventName(name) == name \in DuplicatedEventNames

\* a removal that drops every Occurrence of a duplicated name
RECURSIVE RemoveAllOccurrences(_, _)
RemoveAllOccurrences(evs, i) ==
    IF i > Len(evs) THEN << >>
    ELSE IF ~IsDuplicatedEventName(evs[i].name)
         THEN <<evs[i]>> \o RemoveAllOccurrences(evs, i + 1)
         ELSE RemoveAllOccurrences(evs, i + 1)
\* "Remove first occurrences of events with certain names"
RECURSIVE RemoveFirstOccurrences(_, _)
RemoveFirstOccurrences(evs, i) ==
    IF i > Len(evs) THEN << >>
    ELSE IF \/ ~IsDuplicatedEventName(evs[i].name)
            \/ i # IndicesByEventName(evs, evs[i].name, 1)[1]
         THEN <<evs[i]>> \o RemoveFirstOccurrences(evs, i + 1)
         ELSE RemoveFirstOccurrences(evs, i + 1)

\* analyse_sample up to `let ts_start = relevant_events[0].ts`; the record
\* returned keeps the locals the function had when it left
ResolveScope(trace, url) ==
    LET all_events == SortByTsDur(trace, 1, << >>)
        found == FindByUrl(all_events, url, 1)
    IN  IF ~IsSome(found)
        THEN Err("Failed to find event with the given documentLoaderURL")
        ELSE
        LET ids == Zip(NavigationId(Unwrap(found)), Frame(Unwrap(found)))
        IN  IF ~IsSome(ids)
            THEN Err("Event with the given documentLoaderURL has no navigationId and/or frame")
            ELSE
            LET navigation_id == Unwrap(ids)[1]
                frame == Unwrap(ids)[2]
                scoped == SelectSeq(all_events,
                                    LAMBDA e : InScope(e, navigation_id, frame))
                relevant == RemoveFirstOccurrences(scoped, 1)
            IN  [kind |-> IF relevant = << >> THEN "Panic" ELSE "Ok",
                 all_events |-> all_events,
                 navigation_id |-> navigation_id,
                 frame |-> frame,
                 scoped |-> scoped,
                 relevant_events |-> relevant,
                 ts_start |-> IF relevant = << >> THEN None
                              ELSE Some(relevant[1].ts)]

(***************************************************************************)
(* The binary (Perfetto) decoder of servo.rs: analyse_perfetto_trace.      *)
(***************************************************************************)
\* perfetto TracePacket and TrackEvent, with the fields the decoder reads;
\* debug_annotations is kept as the map the decoder collects it into
TracePacket(timestamp_clock_id, timestamp, data) ==
    [timestamp_clock_id |-> timestamp_clock_id, timestamp |-> timestamp,
     data |-> data]
TrackEvent(track_uuid, type, name, debug_annotations) ==
    [kind |-> "TrackEvent", track_uuid |-> track_uuid, type |-> type,
     name |-> name, debug_annotations |-> debug_annotations]
OtherData == [kind |-> "Other"]
\* TrackEvent::name(): the empty string when the field is absent
NameOf(event) == IF IsSome(event.name) THEN Unwrap(event.name) ELSE ""
PendingSlice(start, event) == [start |-> start, event |-> event]

\* an entry that starts from an empty stack every time
EntryAlwaysDefault(tracks, track_uuid) ==
    [t \in DOMAIN tracks \cup {track_uuid} |->
        IF t = track_uuid THEN << >> ELSE tracks[t]]

\* tracks.entry(track_uuid).or_default()
EntryOrDefault(tracks, track_uuid) ==
    IF track_uuid \in DOMAIN tracks THEN tracks
    ELSE [t \in DOMAIN tracks \cup {track_uuid} |->
             IF t = track_uuid THEN << >> ELSE tracks[t]]

\* the state of the packet loop: `at` packets were processed in full
DecodeInit ==
    [kind |-> "Ok", msg |-> "", tracks |-> << >>, decoded |-> << >>, at |-> 0]
DecodeFail(st, kind, msg) == [st EXCEPT !.kind = kind, !.msg = msg]

\* slice_stack.pop() of a stack that is not empty
PopNewest(stack) ==
    [slice |-> stack[Len(stack)], rest |-> SubSeq(stack, 1, Len(stack) - 1)]

\* TYPE_SLICE_END
SliceEnd(st, tracks, packet, event, checks) ==
    LET stack == tracks[event.track_uuid]
    IN  IF stack = << >>
        THEN DecodeFail([st EXCEPT !.tracks = tracks], "Err",
                        "Slice stack for track is empty")
        ELSE
        LET popped == PopNewest(stack)
            slice == popped.slice
            after == [st EXCEPT !.tracks =
                         [tracks EXCEPT ![event.track_uuid] = popped.rest]]
        IN  IF IsSome(event.name) /\ NameOf(event) # NameOf(slice.event)
            THEN DecodeFail(after, "Panic", "assert_eq!(event.name(), slice.event.name())")
            ELSE IF SubOverflows(packet.timestamp, slice.start) /\ checks
            THEN DecodeFail(after, "Panic", "attempt to subtract with overflow")
            ELSE [after EXCEPT
                     !.decoded = Append(@,
                         Event(NameOf(slice.event), FromNanos(slice.start),
                               Some(FromNanos(packet.timestamp - slice.start)),
                               slice.event.debug_annotations)),
                     !.at = @ + 1]

\* one iteration of `for mut packet in ...packet`
DecodePacket(st, packet, checks) ==
    IF IsSome(packet.timestamp_clock_id)
    THEN DecodeFail(st, "Panic", "assert!(packet.timestamp_clock_id.is_none())")
    ELSE IF ~IsSome(packet.data)
    THEN DecodeFail(st, "Err", "TracePacket has no data")
    ELSE
    LET event == Unwrap(packet.data)
    IN  IF event.kind # "TrackEvent" THEN [st EXCEPT !.at = @ + 1]
        ELSE
        LET tracks == EntryOrDefault(st.tracks, event.track_uuid)
        IN  IF event.type = "TYPE_SLICE_BEGIN"
            THEN [st EXCEPT
                     !.tracks = [tracks EXCEPT ![event.track_uuid] =
                                    Append(@, PendingSlice(packet.timestamp, event))],
                     !.at = @ + 1]
            ELSE IF event.type = "TYPE_SLICE_END"
            THEN SliceEnd(st, tracks, packet, event, checks)
            ELSE [st EXCEPT !.tracks = tracks, !.at = @ + 1]

\* the packet loop: it stops at the first packet that fails
RECURSIVE DecodePackets(_, _, _, _)
DecodePackets(st, pkts, i, checks) ==
    IF i > Len(pkts) \/ st.kind # "Ok" THEN st
    ELSE DecodePackets(DecodePacket(st, pkts[i], checks), pkts, i + 1, checks)

\* all_events.sort_by(start, then duration): a stable sort
RECURSIVE InsertSortedEvent(_, _, _)
InsertSortedEvent(sorted, e, i) ==
    IF i > Len(sorted) THEN Append(sorted, e)
    ELSE IF MayPrecede(sorted[i].start, sorted[i].duration, e.start, e.duration)
         THEN InsertSortedEvent(sorted, e, i + 1)
         ELSE SubSeq(sorted, 1, i - 1) \o <<e>> \o SubSeq(sorted, i, Len(sorted))
RECURSIVE SortByStartDuration(_, _, _)
SortByStartDuration(evs, i, sorted) ==
    IF i > Len(evs) THEN sorted
    ELSE SortByStartDuration(evs, i + 1, InsertSortedEvent(sorted, evs[i], 1))

NoUrlNames == {"Compositing", "IpcReceiver"}
\* e.metadata.get("url").is_some_and(|v| v.string_value() == url)
HasUrl(e, url) == "url" \in DOMAIN e.metadata /\ e.metadata["url"] = url
\* a filter without the exemption of NO_URL_NAMES
IsRelevantByUrlOnly(e, url) == HasUrl(e, url)
\* the filter of relevant_events in analyse_perfetto_trace
IsRelevantPerfetto(e, url) == HasUrl(e, url) \/ e.name \in NoUrlNames

\* analyse_perfetto_trace after the packet loop: sort, filter by URL, bail
ScopePerfettoEvents(decoded, url) ==
    LET all_events == SortByStartDuration(decoded, 1, << >>)
        relevant == SelectSeq(all_events, LAMBDA e : IsRelevantPerfetto(e, url))
    IN  IF \A i \in 1..Len(relevant) : ~HasUrl(relevant[i], url)
        THEN [kind |-> "Err",
              msg |-> "No entry with matching .metadata.url! Skipping sample",
              all_events |-> all_events, scoped |-> relevant,
              relevant_events |-> << >>]
        ELSE [kind |-> "Ok", msg |-> "", all_events |-> all_events,
              scoped |-> relevant, relevant_events |-> relevant]

\* analyse_perfetto_trace; the record keeps the locals of the function
AnalysePerfettoTrace(pkts, url, checks) ==
    LET st == DecodePackets(DecodeInit, pkts, 1, checks)
    IN  IF st.kind # "Ok"
        THEN [kind |-> st.kind, msg |-> st.msg, tracks |-> st.tracks,
              decoded |-> st.decoded, at |-> st.at,
              all_events |-> << >>, scoped |-> << >>,
              relevant_events |-> << >>]
        ELSE LET r == ScopePerfettoEvents(st.decoded, url)
             IN  [kind |-> r.kind, msg |-> r.msg,
                  tracks |-> st.tracks, decoded |-> st.decoded, at |-> st.at,
                  all_events |-> r.all_events, scoped |-> r.scoped,
                  relevant_events |-> r.relevant_events]

(***************************************************************************)
(* Sample::real_events of both engines.                                    *)
(***************************************************************************)
\* the names real_events of chromium.rs leaves out
HiddenEventNames ==
    {"PaintTimingVisualizer::LayoutObjectPainted", "ResourceSendRequest",
     "ResourceReceivedData", "ResourceReceiveResponse"}
\* Option<usize> -> Option<Duration>
MapFromMicros(dur) == IF IsSome(dur) THEN Some(FromMicros(Unwrap(dur))) ELSE None

\* filter(..).map(..) of real_events (chromium.rs)
RECURSIVE RebaseTraceEvents(_, _, _)
RebaseTraceEvents(evs, start, i) ==
    IF i > Len(evs) THEN << >>
    ELSE IF evs[i].name \in HiddenEventNames
         THEN RebaseTraceEvents(evs, start, i + 1)
         ELSE <<Event(evs[i].name, FromMicros(evs[i].ts - start),
                      MapFromMicros(evs[i].dur), EmptyMap)>>
              \o RebaseTraceEvents(evs, start, i + 1)

\* SampleAnalysis::real_events (chromium.rs)
RealEventsChromium(evs) ==
    IF evs = << >> THEN Err("No events")
    ELSE LET start == MinOf({evs[i].ts : i \in 1..Len(evs)})
         IN  [kind |-> "Ok", events |-> RebaseTraceEvents(evs, start, 1)]

\* SampleAnalysis::real_events (servo.rs)
RealEventsServo(evs) ==
    IF evs = << >> THEN Err("No events")
    ELSE LET start == MinOf({evs[i].start : i \in 1..Len(evs)})
         IN  [kind |-> "Ok",
              events |-> [i \in 1..Len(evs) |->
                             Event(evs[i].name, evs[i].start - start,
                                   evs[i].duration, evs[i].metadata)]]

(***************************************************************************)
(* The HTML trace decoder of servo.rs: analyse_html_trace, from the        *)
(* entries of window.TRACES on.                                            *)
(***************************************************************************)
\* struct HtmlTraceEvent; metadata is Option<HtmlTraceMetadata { url }>
HtmlTraceEvent(category, startTime, endTime, metadata) ==
    [category |-> category, startTime |-> startTime, endTime |-> endTime,
     metadata |-> metadata]
InstantaneousNames ==
    {"TimeToFirstPaint", "TimeToFirstContentfulPaint", "TimeToInteractive"}

\* impl TryFrom<HtmlTraceEvent> for Event
TryFromHtmlTraceEvent(event, checks) ==
    IF event.category \in InstantaneousNames
    THEN IF event.endTime # event.startTime
         THEN Err("Event is not instantaneous")
         ELSE [kind |-> "Ok",
               event |-> Event(event.category, FromNanos(event.startTime),
                               None, EmptyMap)]
    ELSE IF SubOverflows(event.endTime, event.startTime) /\ checks
         THEN Panic
         ELSE [kind |-> "Ok",
               event |-> Event(event.category, FromNanos(event.startTime),
                               Some(FromNanos(event.endTime - event.startTime)),
                               EmptyMap)]

\* into_iter().map(|e| Event::try_from(e)).collect::<eyre::Result<Vec<_>>>():
\* the conversion stops at the first entry that fails
RECURSIVE TryFromAll(_, _, _, _)
TryFromAll(entries, i, done, checks) ==
    IF i > Len(entries) THEN [kind |-> "Ok", events |-> done]
    ELSE LET r == TryFromHtmlTraceEvent(entries[i], checks)
         IN  IF r.kind # "Ok" THEN r
             ELSE TryFromAll(entries, i + 1, Append(done, r.event), checks)

\* all_events.sort_by(startTime, then endTime): a stable sort
RECURSIVE InsertSortedHtml(_, _, _)
InsertSortedHtml(sorted, e, i) ==
    IF i > Len(sorted) THEN Append(sorted, e)
    ELSE IF \/ sorted[i].startTime < e.startTime
            \/ sorted[i].startTime = e.startTime /\ sorted[i].endTime <= e.endTime
         THEN InsertSortedHtml(sorted, e, i + 1)
         ELSE SubSeq(sorted, 1, i - 1) \o <<e>> \o SubSeq(sorted, i, Len(sorted))
RECURSIVE SortByStartEndTime(_, _, _)
SortByStartEndTime(entries, i, sorted) ==
    IF i > Len(entries) THEN sorted
    ELSE SortByStartEndTime(entries, i + 1, InsertSortedHtml(sorted, entries[i], 1))

\* e.metadata.as_ref().is_some_and(|m| m.url == url)
HtmlHasUrl(e, url) == e.metadata = Some(url)
\* the filter of relevant_events in analyse_html_trace
IsRelevantHtml(e, url) == HtmlHasUrl(e, url) \/ e.category \in NoUrlNames

\* analyse_html_trace from the sort of all_events on; the record keeps the
\* locals of the function: `scoped` is relevant_events before the conversion
AnalyseHtmlTrace(entries, url, checks) ==
    LET all_events == SortByStartEndTime(entries, 1, << >>)
        scoped == SelectSeq(all_events, LAMBDA e : IsRelevantHtml(e, url))
        converted == TryFromAll(scoped, 1, << >>, checks)
    IN  IF \A i \in 1..Len(scoped) : ~HtmlHasUrl(scoped[i], url)
        THEN [kind |-> "Err",
              msg |-> "No entry with matching .metadata.url! Skipping sample",
              all_events |-> all_events, scoped |-> scoped,
              relevant_events |-> << >>]
        ELSE IF converted.kind = "Err"
        THEN [kind |-> "Err", msg |-> converted.msg,
              all_events |-> all_events, scoped |-> scoped,
              relevant_events |-> << >>]
        ELSE IF converted.kind = "Panic"
        THEN [kind |-> "Panic", msg |-> "attempt to subtract with overflow",
              all_events |-> all_events, scoped |-> scoped,
              relevant_events |-> << >>]
        ELSE [kind |-> "Ok", msg |-> "", all_events |-> all_events,
              scoped |-> scoped, relevant_events |-> converted.events]

(***************************************************************************)
(* The dual-trace analysis of servo.rs: analyse_sample.                    *)
(***************************************************************************)
HtmlOnlyNames ==
    {"TimeToFirstPaint", "TimeToFirstContentfulPaint", "TimeToInteractive"}
RendererNames ==
    {"ScriptParseHTML", "ScriptEvaluate", "LayoutPerform", "Compositing"}
\* the durations of analyse_html_trace and analyse_perfetto_trace
DurationsOf(evs) ==
    [n \in RendererNames |-> SumDurationServo(evs, n).value]

\* map(|e| Event { start: e.start - trace_start, ..e })
Rebase(evs, trace_start) ==
    [i \in 1..Len(evs) |->
        Event(evs[i].name, evs[i].start - trace_start, evs[i].duration,
              evs[i].metadata)]
\* a merge that takes every Event of the HTML trace
ChainAll(html_trace_events, perfetto_trace_events) ==
    html_trace_events \o perfetto_trace_events
\* filter(HTML_ONLY_NAMES).chain(perfetto_trace_events)
ChainHtmlOnly(html_trace_events, perfetto_trace_events) ==
    SelectSeq(html_trace_events, LAMBDA e : e.name \in HtmlOnlyNames)
        \o perfetto_trace_events

\* analyse_sample (servo.rs) after the two analyses; the record keeps them
MergeTraces(html_trace, perfetto_trace) ==
    LET failed == [kind |-> "Err", msg |-> "", html_trace |-> html_trace,
                   perfetto_trace |-> NotCalled, relevant_events |-> << >>,
                   durations |-> << >>]
    IN  IF html_trace.kind # "Ok"
        THEN [failed EXCEPT !.kind = html_trace.kind, !.msg = html_trace.msg]
        ELSE IF perfetto_trace.kind # "Ok"
        THEN [failed EXCEPT !.kind = perfetto_trace.kind,
                            !.msg = perfetto_trace.msg,
                            !.perfetto_trace = perfetto_trace]
        ELSE IF html_trace.relevant_events[1].name
                   # perfetto_trace.relevant_events[1].name
        THEN [failed EXCEPT !.kind = "Panic",
                            !.msg = "assert_eq!(html_trace.relevant_events[0].name, perfetto_trace.relevant_events[0].name)",
                            !.perfetto_trace = perfetto_trace]
        ELSE
        LET html_trace_events ==
                Rebase(html_trace.relevant_events,
                       html_trace.relevant_events[1].start)
            perfetto_trace_events ==
                Rebase(perfetto_trace.relevant_events,
                       perfetto_trace.relevant_events[1].start)
        IN  [kind |-> "Ok", msg |-> "", html_trace |-> html_trace,
             perfetto_trace |-> perfetto_trace,
             relevant_events |->
                 SortByStartDuration(
                     ChainHtmlOnly(html_trace_events, perfetto_trace_events),
                     1, << >>),
             durations |->
                 MapExtend(DurationsOf(perfetto_trace.relevant_events),
                           [n \in RendererNames \cap HtmlOnlyNames |->
                               DurationsOf(html_trace.relevant_events)[n]])]

\* analyse_sample (servo.rs): the two traces are analysed, then merged
AnalyseSampleServo(entries, pkts, url, checks) ==
    MergeTraces(AnalyseHtmlTrace(entries, url, checks),
                AnalysePerfettoTrace(pkts, url, checks))

(***************************************************************************)
(* analyse_sample of chromium.rs in full, and analyse_samples of both      *)
(* engines.                                                                *)
(***************************************************************************)
\* TraceEvent::has_category; every cat of the model is a single category
HasCategory(e, category) == e.cat = category
\* SampleAnalysis::loading_events, as the set of their names
LoadingEventNames(evs) ==
    {evs[i].name : i \in {j \in 1..Len(evs) : HasCategory(evs[j], "loading")}}
OtherEventNames ==
    {"ParseHTML", "EvaluateScript", "UpdateLayoutTree", "Layout", "PrePaint",
     "Paint", "Layerize"}

\* a file of the batch: unreadable, unparsable, or parsed into `content`
SampleFile(readable, content) == [readable |-> readable, content |-> content]

\* analyse_sample (chromium.rs) after ts_start: the metrics of the Sample
SampleMetrics(scope, checks) ==
    LET evs == scope.relevant_events
        total == UniqueInstantaneousEventFrom(evs, "*Total", "fetchStart", "loadEventEnd", checks)
        fetching == UniqueInstantaneousEventFrom(evs, "*Fetching", "fetchStart", "responseEnd", checks)
        navigation == UniqueInstantaneousEventFrom(evs, "*Navigation", "navigationStart", "commitNavigationEnd", checks)
        loading == [n \in LoadingEventNames(evs) \ {"markAsMainFrame"} |->
                       UniqueInstantaneousEventFrom(evs, n, "markAsMainFrame", n, checks)]
        other == [n \in OtherEventNames |-> SumDurationChromium(evs, n, checks)]
    IN  IF total.kind # "Ok" THEN total
        ELSE IF fetching.kind # "Ok" THEN fetching
        ELSE IF navigation.kind # "Ok" THEN navigation
        ELSE IF \E n \in DOMAIN loading : loading[n].kind = "Panic" THEN Panic
        ELSE IF \E n \in DOMAIN other : other[n].kind = "Panic" THEN Panic
        ELSE [kind |-> "Ok",
              navigation_id |-> scope.navigation_id,
              frame |-> scope.frame,
              relevant_events |-> evs,
              ts_start |-> scope.ts_start,
              total_duration |-> Unwrap(total.event.duration),
              fetching_duration |-> Unwrap(fetching.event.duration),
              navigation_duration |-> Unwrap(navigation.event.duration),
              durations |->
                  MapExtend(
                      [n \in {m \in DOMAIN loading : loading[m].kind = "Ok"} |->
                          Unwrap(loading[n].event.duration)],
                      [n \in OtherEventNames |-> other[n].value])]

\* analyse_sample (chromium.rs)
AnalyseSampleChromium(file, url, checks) ==
    IF ~file.readable THEN Err("File::open")
    ELSE IF ~IsSome(file.content) THEN Err("serde_json::from_str")
    ELSE LET scope == ResolveScope(Unwrap(file.content), url)
         IN  IF scope.kind = "Err" THEN scope
             ELSE IF scope.kind = "Panic" THEN Panic
             ELSE SampleMetrics(scope, checks)

\* the SampleAnalysis that analyse_sample (servo.rs) returns
SampleAnalysis(sample) ==
    IF sample.kind = "Err" THEN Err(sample.msg)
    ELSE IF sample.kind = "Panic" THEN Panic
    ELSE [kind |-> "Ok", relevant_events |-> sample.relevant_events,
          durations |-> sample.durations]

\* analyse_sample (servo.rs): the manifest, then the two traces
AnalyseManifest(file, url, checks) ==
    IF ~file.readable THEN Err("File::open")
    ELSE IF ~IsSome(file.content) THEN Err("serde_json::from_str")
    ELSE SampleAnalysis(AnalyseSampleServo(Unwrap(file.content).html,
                                           Unwrap(file.content).perfetto,
                                           url, checks))

\* the loop of analyse_samples: Ok(result) is pushed, Err(error) is warned
RECURSIVE CollectSamples(_, _, _)
CollectSamples(results, i, pushed) ==
    IF i > Len(results) THEN [kind |-> "Ok", samples |-> pushed]
    ELSE IF results[i].kind = "Ok"
         THEN CollectSamples(results, i + 1, Append(pushed, results[i]))
         ELSE CollectSamples(results, i + 1, pushed)

\* a panic of one analysis unwinds through analyse_samples
CollectOrUnwind(results) ==
    IF \E i \in 1..Len(results) : results[i].kind = "Panic" THEN Panic
    ELSE CollectSamples(results, 1, << >>)

\* analyse_samples of either engine: every path is analysed first
\* (map(..).collect()), then the results are looked at
AnalyseSamples(which, files, url, checks) ==
    CollectOrUnwind([i \in 1..Len(files) |->
                        IF which = "chromium"
                        THEN AnalyseSampleChromium(files[i], url, checks)
                        ELSE AnalyseManifest(files[i], url, checks)])

(***************************************************************************)
(* The formatting of a Summary<f64>: Summary::value, Summary::dp and the   *)
(* fmt_* functions.  A rendering "{:.*?}{}" is kept as the number of       *)
(* decimal places, the decimal digits of the rounded value (the value      *)
(* times 10^dp, rounded to an integer) and the unit.                       *)
(***************************************************************************)
\* x * (m as f64) for a finite x and a positive integer m, cancelling first
FMulInt(x, m) ==
    LET g == GCD(m, x.d)
    IN  Frac(x.n * (m \div g), x.d \div g)
\* x >= (m as f64); a comparison with NaN is false
FGeqInt(x, m) == IF IsNum(x) THEN x.n >= m * x.d ELSE FALSE

\* Summary::value
SummaryValue(x) ==
    IF ~IsNum(x) THEN <<x, "ns">>
    ELSE IF FGeqInt(x, 1) THEN <<x, "s">>
    ELSE IF FGeqInt(FMulInt(x, 1000), 1) THEN <<FMulInt(x, 1000), "ms">>
    ELSE IF FGeqInt(FMulInt(x, 1000000), 1) THEN <<FMulInt(x, 1000000), "us">>
    ELSE <<FMulInt(x, 1000000000), "ns">>

\* a dp taken from the value in seconds instead of the scaled value
SummaryDpOfSeconds(x) ==
    IF FGeqInt(x, 1000) THEN 0
    ELSE IF FGeqInt(x, 100) THEN 1
    ELSE IF FGeqInt(x, 10) THEN 2
    ELSE 3

\* Summary::dp
SummaryDp(x) ==
    LET value == SummaryValue(x)[1]
    IN  IF FGeqInt(value, 1000) THEN 0
        ELSE IF FGeqInt(value, 100) THEN 1
        ELSE IF FGeqInt(value, 10) THEN 2
        ELSE 3

\* the integer nearest to a finite value that is not negative; a tie goes
\* to the even one
RoundHalfEven(x) ==
    LET q == x.n \div x.d
        r == x.n % x.d
    IN  IF 2 * r < x.d THEN q
        ELSE IF 2 * r > x.d THEN q + 1
        ELSE IF q % 2 = 0 THEN q ELSE q + 1
RECURSIVE Pow10(_)
Pow10(k) == IF k = 0 THEN 1 ELSE 10 * Pow10(k - 1)

\* format!("{:.*?}{}", dp, value, unit)
FormatWithPrecision(dp, value, unit) ==
    [dp |-> dp,
     digits |-> IF IsNum(value) THEN RoundHalfEven(FMulInt(value, Pow10(dp)))
                ELSE value,
     unit |-> unit]

\* Summary::fmt_mean, fmt_stdev, fmt_min, fmt_max
FmtMean(s) ==
    FormatWithPrecision(SummaryDp(s.mean), SummaryValue(s.mean)[1],
                        SummaryValue(s.mean)[2])
FmtStdev(s) ==
    FormatWithPrecision(SummaryDp(s.stdev), SummaryValue(s.stdev)[1],
                        SummaryValue(s.stdev)[2])
FmtMin(s) ==
    FormatWithPrecision(SummaryDp(s.min), SummaryValue(s.min)[1],
                        SummaryValue(s.min)[2])
FmtMax(s) ==
    FormatWithPrecision(SummaryDp(s.max), SummaryValue(s.max)[1],
                        SummaryValue(s.max)[2])

(***************************************************************************)
(* analyse.rs: the Chromium branch of analyse_sample.  A path is its file   *)
(* stem and its extension; a job is a pair <<pftrace_path, json_path>>.     *)
(***************************************************************************)
Path(stem, extension) == [stem |-> stem, extension |-> extension]

\* format!("{}.json", pftrace_path.strip_suffix(".pftrace"))
JsonPath(pftrace_path) == Path(pftrace_path.stem, "json")

\* Mutant of ConvertJobs: the json_path is not looked for before the push.
ConvertJobsOfEveryTrace(dir) ==
    {<<path, JsonPath(path)>> : path \in {p \in dir : p.extension = "pftrace"}}

\* The jobs the first read_dir loop pushes: one for each entry with the
\* extension pftrace whose json_path does not exist.
ConvertJobs(dir) ==
    {<<path, JsonPath(path)>> :
        path \in {p \in dir : p.extension = "pftrace" /\ JsonPath(p) \notin dir}}

\* read_dir yields the entries in an order the platform chooses.
ReadDirOrders(S) ==
    {s \in [1..Cardinality(S) -> S] : \A i, j \in DOMAIN s : i # j => s[i] # s[j]}

Ended(result) == result \in {"Ok", "Err"}

\* Mutant of Collected: the parallel map gives up at the first Err.
CollectedOrFailed(results) ==
    \/ \A j \in DOMAIN results : Ended(results[j])
    \/ \E j \in DOMAIN results : results[j] = "Err"

\* collect::<Vec<_>>() returns once every job of par_iter() has returned.
Collected(results) == \A j \in DOMAIN results : Ended(results[j])

\* for result in traceconv_results { result?; }
FirstErr(results) ==
    IF \E j \in DOMAIN results : results[j] = "Err"
    THEN Some(CHOOSE j \in DOMAIN results :
                 /\ results[j] = "Err"
                 /\ \A i \in 1..(j - 1) : results[i] # "Err")
    ELSE None

\* The second read_dir loop: every json file except summaries.*.
SummaryArgs(dir) == {p \in dir : p.stem # "summaries" /\ p.extension = "json"}

(***************************************************************************)
(* SpecMerge: any list of Events is built, then merged.                    *)
(***************************************************************************)
MergedName == "Layout"
GroupNames == {"LayoutPerform"}
Durations == {None} \cup {Some(d) : d \in 0..MaxDur}
InputEvents ==
    {Event(n, s, d, m) : n \in GroupNames, s \in 0..MaxTime,
                         d \in Durations, m \in Metadatas}

IdleMerge == events = << >> /\ merged = NotCalled
IdleSummary == individuals = << >> /\ summary = NotCalled
IdleMetric == engine = "none" /\ relevant_events = << >> /\ metric = NotCalled
IdleBatch == paths = << >> /\ samples = NotCalled
IdleConvert ==
    /\ sample_dir = {}
    /\ pc = "idle"
    /\ convert_jobs = << >>
    /\ traceconv_results = << >>
    /\ conversions = << >>
    /\ outcome = NotCalled
IdleSample ==
    /\ traceEvents = << >>
    /\ packets = << >>
    /\ window_TRACES = << >>
    /\ analysis = NotCalled

InitMerge ==
    /\ overflow_checks \in BOOLEAN
    /\ IdleMerge
    /\ IdleSummary
    /\ IdleMetric
    /\ IdleSample
    /\ IdleBatch
    /\ IdleConvert

PushEvent ==
    /\ merged = NotCalled
    /\ Len(events) < MaxEvents
    /\ \E e \in InputEvents : events' = Append(events, e)
    /\ UNCHANGED <<overflow_checks, merged, summaryVars, metricVars, sampleVars, batchVars,
                   convertVars>>

CallGenerateMergedEvents ==
    /\ merged = NotCalled
    /\ merged' = GenerateMergedEvents(events, MergedName, overflow_checks)
    /\ UNCHANGED <<overflow_checks, events, summaryVars, metricVars, sampleVars, batchVars,
                   convertVars>>

NextMerge ==
    \/ PushEvent
    \/ CallGenerateMergedEvents

SpecMerge == InitMerge /\ [][NextMerge]_vars

(***************************************************************************)
(* SpecSummary: any Analysis is built, then summarised.  An individual is  *)
(* what the getter makes of it: None (absent) or Some(seconds).            *)
(***************************************************************************)
Projections == {None} \cup {Some(v) : v \in 0..MaxValue}

InitSummary ==
    /\ overflow_checks \in BOOLEAN
    /\ IdleMerge
    /\ IdleSummary
    /\ IdleMetric
    /\ IdleSample
    /\ IdleBatch
    /\ IdleConvert

PushIndividual ==
    /\ summary = NotCalled
    /\ Len(individuals) < MaxSamples
    /\ \E x \in Projections : individuals' = Append(individuals, x)
    /\ UNCHANGED <<overflow_checks, summary, mergeVars, metricVars, sampleVars, batchVars,
                   convertVars>>

CallSummary ==
    /\ summary = NotCalled
    /\ summary' = AnalysisSummary(individuals, overflow_checks)
    /\ UNCHANGED <<overflow_checks, individuals, mergeVars, metricVars, sampleVars, batchVars,
                   convertVars>>

NextSummary ==
    \/ PushIndividual
    \/ CallSummary

SpecSummary == InitSummary /\ [][NextSummary]_vars

(***************************************************************************)
(* SpecMetric: the relevant_events of one sample are built in the order    *)
(* analyse_sample leaves them in (sorted by start, then duration), then    *)
(* one relative metric is asked for.                                       *)
(***************************************************************************)
ChromiumNames == {"markAsMainFrame"} \cup {m[2] : m \in ChromiumMetrics}
ServoNames == {"ScriptParseHTML"} \cup {m[2] : m \in ServoMetrics}
MetricDurations == {None, Some(1)}
TraceEvents ==
    {TraceEvent(n, t, d) : n \in ChromiumNames, t \in 0..MaxTime,
                           d \in MetricDurations}
\* servo.rs:444: the Events of an HTML trace carry no metadata
ServoMetadata(n) == IF n = "ScriptParseHTML" THEN [foo |-> 1] ELSE EmptyMap
ServoEvents ==
    {Event(n, FromNanos(t), d, ServoMetadata(n)) :
        n \in ServoNames, t \in 0..MaxTime, d \in MetricDurations}

InitMetric ==
    /\ overflow_checks \in BOOLEAN
    /\ IdleMerge
    /\ IdleSummary
    /\ engine \in {"chromium", "servo"}
    /\ relevant_events = << >>
    /\ metric = NotCalled
    /\ IdleSample
    /\ IdleBatch
    /\ IdleConvert

PushTraceEvent ==
    /\ engine = "chromium"
    /\ metric = NotCalled
    /\ Len(relevant_events) < MaxTraceEvents
    /\ \E e \in TraceEvents :
          /\ IF relevant_events = << >> THEN TRUE
             ELSE LET last == relevant_events[Len(relevant_events)]
                  IN  MayPrecede(last.ts, last.dur, e.ts, e.dur)
          /\ relevant_events' = Append(relevant_events, e)
    /\ UNCHANGED <<overflow_checks, engine, metric, mergeVars, summaryVars,
                   sampleVars, batchVars,
                   convertVars>>

PushServoEvent ==
    /\ engine = "servo"
    /\ metric = NotCalled
    /\ Len(relevant_events) < MaxTraceEvents
    /\ \E e \in ServoEvents :
          /\ IF relevant_events = << >> THEN TRUE
             ELSE LET last == relevant_events[Len(relevant_events)]
                  IN  MayPrecede(last.start, last.duration,
                                 e.start, e.duration)
          /\ relevant_events' = Append(relevant_events, e)
    /\ UNCHANGED <<overflow_checks, engine, metric, mergeVars, summaryVars,
                   sampleVars, batchVars,
                   convertVars>>

CallUniqueInstantaneousEventFrom ==
    /\ engine = "chromium"
    /\ metric = NotCalled
    /\ \E m \in ChromiumMetrics :
          metric' =
              [result_name |-> m[1], anchor |-> "markAsMainFrame",
               target |-> m[2],
               result |-> UniqueInstantaneousEventFrom(
                              relevant_events, m[1], "markAsMainFrame", m[2],
                              overflow_checks)]
    /\ UNCHANGED <<overflow_checks, engine, relevant_events, mergeVars,
                   summaryVars, sampleVars, batchVars,
                   convertVars>>

CallUniqueInstantaneousEventFromFirstParse ==
    /\ engine = "servo"
    /\ metric = NotCalled
    /\ \E m \in ServoMetrics :
          metric' =
              [result_name |-> m[1], anchor |-> "ScriptParseHTML",
               target |-> m[2],
               result |-> UniqueInstantaneousEventFromFirstParse(
                              relevant_events, m[1], m[2])]
    /\ UNCHANGED <<overflow_checks, engine, relevant_events, mergeVars,
                   summaryVars, sampleVars, batchVars,
                   convertVars>>

NextMetric ==
    \/ PushTraceEvent
    \/ PushServoEvent
    \/ CallUniqueInstantaneousEventFrom
    \/ CallUniqueInstantaneousEventFromFirstParse

SpecMetric == InitMetric /\ [][NextMetric]_vars

(***************************************************************************)
(* SpecSum: the relevant_events of one sample are built, then the          *)
(* durations of one name are summed.                                       *)
(***************************************************************************)
\* chromium.rs:192 other_event_names, servo.rs:26 RENDERER_NAMES (two each)
ChromiumSumNames == {"ParseHTML", "Layout"}
ServoSumNames == {"ScriptParseHTML", "LayoutPerform"}
\* the least durations, half the usize range and the greatest duration
SumDurs == {0, 1, UsizeLimit \div 2, UsizeLimit - 1}
SumTraceEvents ==
    {TraceEvent(n, t, d) :
        n \in ChromiumSumNames, t \in 0..MaxTime,
        d \in {None} \cup {Some(u) : u \in SumDurs}}
SumServoEvents ==
    {Event(n, FromNanos(t), d, EmptyMap) :
        n \in ServoSumNames, t \in 0..MaxTime, d \in Durations}

PushSumTraceEvent ==
    /\ engine = "chromium"
    /\ metric = NotCalled
    /\ Len(relevant_events) < MaxTraceEvents
    /\ \E e \in SumTraceEvents :
          /\ IF relevant_events = << >> THEN TRUE
             ELSE LET last == relevant_events[Len(relevant_events)]
                  IN  MayPrecede(last.ts, last.dur, e.ts, e.dur)
          /\ relevant_events' = Append(relevant_events, e)
    /\ UNCHANGED <<overflow_checks, engine, metric, mergeVars, summaryVars,
                   sampleVars, batchVars,
                   convertVars>>

PushSumServoEvent ==
    /\ engine = "servo"
    /\ metric = NotCalled
    /\ Len(relevant_events) < MaxTraceEvents
    /\ \E e \in SumServoEvents :
          /\ IF relevant_events = << >> THEN TRUE
             ELSE LET last == relevant_events[Len(relevant_events)]
                  IN  MayPrecede(last.start, last.duration,
                                 e.start, e.duration)
          /\ relevant_events' = Append(relevant_events, e)
    /\ UNCHANGED <<overflow_checks, engine, metric, mergeVars, summaryVars,
                   sampleVars, batchVars,
                   convertVars>>

CallSumDurationChromium ==
    /\ engine = "chromium"
    /\ metric = NotCalled
    /\ \E n \in ChromiumSumNames :
          metric' = [name |-> n,
                     result |-> SumDurationChromium(relevant_events, n,
                                                    overflow_checks)]
    /\ UNCHANGED <<overflow_checks, engine, relevant_events, mergeVars,
                   summaryVars, sampleVars, batchVars,
                   convertVars>>

CallSumDurationServo ==
    /\ engine = "servo"
    /\ metric = NotCalled
    /\ \E n \in ServoSumNames :
          metric' = [name |-> n,
                     result |-> SumDurationServo(relevant_events, n)]
    /\ UNCHANGED <<overflow_checks, engine, relevant_events, mergeVars,
                   summaryVars, sampleVars, batchVars,
                   convertVars>>

NextSum ==
    \/ PushSumTraceEvent
    \/ PushSumServoEvent
    \/ CallSumDurationChromium
    \/ CallSumDurationServo

SpecSum == InitMetric /\ [][NextSum]_vars

(***************************************************************************)
(* SpecScope: the traceEvents of one Chromium JSON trace are read, then    *)
(* analyse_sample resolves the scope of the target URL.                    *)
(***************************************************************************)
TargetUrl == "http://example.org/"
\* name, category and args of the Occurrences of the traces: the documents
\* N1 (in frame A) and N2 (in frame B) were both loaded from the target URL
ScopeKinds ==
    {<<"navigationStart", "blink.user_timing",
       Args(Some(Data(Some(TargetUrl), Some("N1"), Some("A"))), None, None)>>,
     <<"navigationStart", "blink.user_timing",
       Args(Some(Data(Some(TargetUrl), None, Some("A"))), None, None)>>,
     <<"navigationStart", "blink.user_timing",
       Args(Some(Data(Some(TargetUrl), Some("N1"), None)), None, None)>>,
     <<"navigationStart", "blink.user_timing",
       Args(Some(Data(Some(TargetUrl), Some("N2"), Some("B"))), None, None)>>,
     <<"navigationStart", "blink.user_timing",
       Args(None, None, Some("A"))>>,
     <<"domLoading", "blink.user_timing",
       Args(Some(Data(None, Some("N1"), None)), None, Some("B"))>>,
     <<"domLoading", "blink.user_timing",
       Args(None, Some(Data(None, None, Some("A"))), None)>>,
     <<"domLoading", "blink.user_timing",
       Args(Some(Data(None, Some("N2"), Some("B"))), None, None)>>,
     <<"DrawFrame", "cc", Args(None, None, Some("A"))>>,
     <<"DrawFrame", "cc", Args(None, None, None)>>}
ScopeTraceEvents ==
    {JsonTraceEvent(k[1], k[2], t, None, k[3]) :
        k \in ScopeKinds, t \in 0..MaxScopeTime}

InitScope ==
    /\ overflow_checks \in BOOLEAN
    /\ IdleMerge
    /\ IdleSummary
    /\ IdleMetric
    /\ IdleSample
    /\ IdleBatch
    /\ IdleConvert

ReadTraceEvent ==
    /\ analysis = NotCalled
    /\ Len(traceEvents) < MaxScopeEvents
    /\ \E e \in ScopeTraceEvents : traceEvents' = Append(traceEvents, e)
    /\ UNCHANGED <<overflow_checks, packets, window_TRACES, analysis, mergeVars,
                   summaryVars, metricVars, batchVars,
                   convertVars>>

CallResolveScope ==
    /\ analysis = NotCalled
    /\ analysis' = ResolveScope(traceEvents, TargetUrl)
    /\ UNCHANGED <<overflow_checks, traceEvents, packets, window_TRACES, mergeVars,
                   summaryVars, metricVars, batchVars,
                   convertVars>>

NextScope ==
    \/ ReadTraceEvent
    \/ CallResolveScope

SpecScope == InitScope /\ [][NextScope]_vars

(***************************************************************************)
(* SpecDecode: the packets of one Perfetto trace are read, then            *)
(* analyse_perfetto_trace decodes them.                                    *)
(***************************************************************************)
TrackUuids == {1, 2}
UrlAnnotation == [url |-> TargetUrl]
\* the payloads of the packets
PacketData ==
    {Some(TrackEvent(t, "TYPE_SLICE_BEGIN", Some("LayoutPerform"), UrlAnnotation)) :
        t \in TrackUuids}
    \cup {Some(TrackEvent(t, "TYPE_SLICE_BEGIN", Some("ScriptEvaluate"), EmptyMap)) :
        t \in TrackUuids}
    \cup {Some(TrackEvent(t, "TYPE_SLICE_END", n, EmptyMap)) :
        t \in TrackUuids, n \in {None, Some("LayoutPerform")}}
    \cup {Some(TrackEvent(1, "TYPE_INSTANT", Some("LayoutPerform"), EmptyMap)),
          Some(OtherData), None}
TracePackets ==
    {TracePacket(None, ts, d) : ts \in 0..MaxPacketTime, d \in PacketData}
    \cup {TracePacket(Some(1), ts, Some(TrackEvent(1, "TYPE_SLICE_END", None, EmptyMap))) :
        ts \in 0..MaxPacketTime}

InitDecode ==
    /\ overflow_checks \in BOOLEAN
    /\ IdleMerge
    /\ IdleSummary
    /\ IdleMetric
    /\ IdleSample
    /\ IdleBatch
    /\ IdleConvert

ReadPacket ==
    /\ analysis = NotCalled
    /\ Len(packets) < MaxPackets
    /\ \E p \in TracePackets : packets' = Append(packets, p)
    /\ UNCHANGED <<overflow_checks, traceEvents, window_TRACES, analysis, mergeVars,
                   summaryVars, metricVars, batchVars,
                   convertVars>>

CallAnalysePerfettoTrace ==
    /\ analysis = NotCalled
    /\ analysis' = AnalysePerfettoTrace(packets, TargetUrl, overflow_checks)
    /\ UNCHANGED <<overflow_checks, traceEvents, packets, window_TRACES, mergeVars,
                   summaryVars, metricVars, batchVars,
                   convertVars>>

NextDecode ==
    \/ ReadPacket
    \/ CallAnalysePerfettoTrace

SpecDecode == InitDecode /\ [][NextDecode]_vars

(***************************************************************************)
(* SpecReal: the relevant_events of one Sample are built, then             *)
(* real_events() is asked for.                                             *)
(***************************************************************************)
RealTraceEvents ==
    {TraceEvent(n, t, d) :
        n \in {"ResourceSendRequest", "Layout"}, t \in 0..MaxTime,
        d \in MetricDurations}

PushRealTraceEvent ==
    /\ engine = "chromium"
    /\ metric = NotCalled
    /\ Len(relevant_events) < MaxTraceEvents
    /\ \E e \in RealTraceEvents :
          /\ IF relevant_events = << >> THEN TRUE
             ELSE LET last == relevant_events[Len(relevant_events)]
                  IN  MayPrecede(last.ts, last.dur, e.ts, e.dur)
          /\ relevant_events' = Append(relevant_events, e)
    /\ UNCHANGED <<overflow_checks, engine, metric, mergeVars, summaryVars,
                   sampleVars, batchVars,
                   convertVars>>

CallRealEventsChromium ==
    /\ engine = "chromium"
    /\ metric = NotCalled
    /\ metric' = [result |-> RealEventsChromium(relevant_events)]
    /\ UNCHANGED <<overflow_checks, engine, relevant_events, mergeVars,
                   summaryVars, sampleVars, batchVars,
                   convertVars>>

CallRealEventsServo ==
    /\ engine = "servo"
    /\ metric = NotCalled
    /\ metric' = [result |-> RealEventsServo(relevant_events)]
    /\ UNCHANGED <<overflow_checks, engine, relevant_events, mergeVars,
                   summaryVars, sampleVars, batchVars,
                   convertVars>>

NextReal ==
    \/ PushRealTraceEvent
    \/ PushServoEvent
    \/ CallRealEventsChromium
    \/ CallRealEventsServo

SpecReal == InitMetric /\ [][NextReal]_vars

(***************************************************************************)
(* SpecUrlKeyed: one URL-keyed trace (an HTML trace or a Perfetto trace of *)
(* well-formed slices) is read, then analysed for the target URL.          *)
(***************************************************************************)
OtherUrl == "http://example.org/iframe"
\* (category, length, metadata) of the entries of window.TRACES
HtmlKinds ==
    {<<"ScriptParseHTML", 1, Some(TargetUrl)>>,
     <<"ScriptParseHTML", 1, Some(OtherUrl)>>,
     <<"ScriptParseHTML", 1, None>>,
     <<"Compositing", 1, None>>,
     <<"TimeToFirstPaint", 0, Some(TargetUrl)>>,
     <<"TimeToFirstPaint", 0, Some(OtherUrl)>>,
     <<"TimeToFirstPaint", 1, Some(TargetUrl)>>}
HtmlTraceEvents ==
    {HtmlTraceEvent(k[1], t, t + k[2], k[3]) :
        k \in HtmlKinds, t \in 0..MaxScopeTime}
\* (name, debug annotations) of the slices of a Perfetto trace
SliceKinds ==
    {<<"LayoutPerform", [url |-> TargetUrl]>>,
     <<"LayoutPerform", [url |-> OtherUrl]>>,
     <<"ScriptEvaluate", EmptyMap>>,
     <<"Compositing", EmptyMap>>}
\* a slice: its begin packet and its end packet, one nanosecond later
Slices ==
    {<<TracePacket(None, t, Some(TrackEvent(1, "TYPE_SLICE_BEGIN", Some(k[1]), k[2]))),
       TracePacket(None, t + 1, Some(TrackEvent(1, "TYPE_SLICE_END", None, EmptyMap)))>> :
        k \in SliceKinds, t \in 0..MaxScopeTime}

InitUrlKeyed ==
    /\ overflow_checks \in BOOLEAN
    /\ IdleMerge
    /\ IdleSummary
    /\ IdleMetric
    /\ IdleSample
    /\ IdleBatch
    /\ IdleConvert

ReadHtmlTraceEvent ==
    /\ analysis = NotCalled
    /\ packets = << >>
    /\ Len(window_TRACES) < MaxHtmlEvents
    /\ \E e \in HtmlTraceEvents : window_TRACES' = Append(window_TRACES, e)
    /\ UNCHANGED <<overflow_checks, traceEvents, packets, analysis, mergeVars,
                   summaryVars, metricVars, batchVars,
                   convertVars>>

ReadSlice ==
    /\ analysis = NotCalled
    /\ window_TRACES = << >>
    /\ Len(packets) < 2 * MaxSlices
    /\ \E s \in Slices : packets' = packets \o s
    /\ UNCHANGED <<overflow_checks, traceEvents, window_TRACES, analysis,
                   mergeVars, summaryVars, metricVars, batchVars,
                   convertVars>>

CallAnalyseHtmlTrace ==
    /\ analysis = NotCalled
    /\ packets = << >>
    /\ analysis' = AnalyseHtmlTrace(window_TRACES, TargetUrl, overflow_checks)
    /\ UNCHANGED <<overflow_checks, traceEvents, packets, window_TRACES,
                   mergeVars, summaryVars, metricVars, batchVars,
                   convertVars>>

NextUrlKeyed ==
    \/ ReadHtmlTraceEvent
    \/ ReadSlice
    \/ CallAnalyseHtmlTrace
    \/ CallAnalysePerfettoTrace

SpecUrlKeyed == InitUrlKeyed /\ [][NextUrlKeyed]_vars

(***************************************************************************)
(* SpecDual: the HTML trace and the Perfetto trace of one sample are read, *)
(* then analyse_sample (servo.rs) merges them.                             *)
(***************************************************************************)
DualHtmlTraceEvents ==
    {HtmlTraceEvent(k[1], t, t + k[2], Some(TargetUrl)) :
        k \in {<<"LayoutPerform", 1>>, <<"TimeToFirstPaint", 0>>},
        t \in 0..MaxScopeTime}
DualSlices ==
    {s \in Slices :
        s[1].data[1].debug_annotations \in {[url |-> TargetUrl], EmptyMap}
        /\ s[1].data[1].name \in {Some("LayoutPerform"), Some("Compositing")}}

InitDual ==
    /\ overflow_checks \in BOOLEAN
    /\ IdleMerge
    /\ IdleSummary
    /\ IdleMetric
    /\ IdleSample
    /\ IdleBatch
    /\ IdleConvert

ReadDualHtmlTraceEvent ==
    /\ analysis = NotCalled
    /\ Len(window_TRACES) < MaxDualEvents
    /\ \E e \in DualHtmlTraceEvents : window_TRACES' = Append(window_TRACES, e)
    /\ UNCHANGED <<overflow_checks, traceEvents, packets, analysis, mergeVars,
                   summaryVars, metricVars, batchVars,
                   convertVars>>

ReadDualSlice ==
    /\ analysis = NotCalled
    /\ Len(packets) < 2 * MaxDualEvents
    /\ \E s \in DualSlices : packets' = packets \o s
    /\ UNCHANGED <<overflow_checks, traceEvents, window_TRACES, analysis,
                   mergeVars, summaryVars, metricVars, batchVars,
                   convertVars>>

CallAnalyseSampleServo ==
    /\ analysis = NotCalled
    /\ analysis' = AnalyseSampleServo(window_TRACES, packets, TargetUrl,
                                      overflow_checks)
    /\ UNCHANGED <<overflow_checks, traceEvents, packets, window_TRACES,
                   mergeVars, summaryVars, metricVars, batchVars,
                   convertVars>>

NextDual ==
    \/ ReadDualHtmlTraceEvent
    \/ ReadDualSlice
    \/ CallAnalyseSampleServo

SpecDual == InitDual /\ [][NextDual]_vars

(***************************************************************************)
(* SpecBatch: the sample files of one batch are named, then                *)
(* analyse_samples analyses them.                                          *)
(***************************************************************************)
\* the args of the Occurrences of document N1 in frame A
DocumentArgs == Args(Some(Data(None, Some("N1"), Some("A"))), None, None)
AnchorArgs == Args(Some(Data(Some(TargetUrl), Some("N1"), Some("A"))), None, None)
\* a page load as Chromium traces it: the milestones are there twice
LoadedTrace ==
    <<JsonTraceEvent("navigationStart", "blink.user_timing", 0, None, AnchorArgs),
      JsonTraceEvent("navigationStart", "blink.user_timing", 0, None, DocumentArgs),
      JsonTraceEvent("fetchStart", "blink.user_timing", 1, None, DocumentArgs),
      JsonTraceEvent("responseEnd", "blink.user_timing", 2, None, DocumentArgs),
      JsonTraceEvent("responseEnd", "blink.user_timing", 2, None, DocumentArgs),
      JsonTraceEvent("commitNavigationEnd", "loading", 2, None, DocumentArgs),
      JsonTraceEvent("Layout", "devtools.timeline", 2, Some(1), DocumentArgs),
      JsonTraceEvent("loadEventEnd", "blink.user_timing", 3, None, DocumentArgs)>>
\* the same load cut off before loadEventEnd
UnfinishedTrace == SubSeq(LoadedTrace, 1, 7)
\* a trace of another page
ForeignTrace ==
    <<JsonTraceEvent("navigationStart", "blink.user_timing", 0, None, DocumentArgs)>>
\* a trace whose only Occurrence in scope is the anchor
AnchorOnlyTrace ==
    <<JsonTraceEvent("navigationStart", "blink.user_timing", 0, None, AnchorArgs)>>
ChromiumFiles ==
    {SampleFile(FALSE, None), SampleFile(TRUE, None)}
    \cup {SampleFile(TRUE, Some(t)) :
            t \in {LoadedTrace, UnfinishedTrace, ForeignTrace, AnchorOnlyTrace}}

\* window.TRACES and packets of the traces of a manifest
LayoutEntry(url) == HtmlTraceEvent("LayoutPerform", 0, 1, Some(url))
PaintEntry == HtmlTraceEvent("TimeToFirstPaint", 1, 1, Some(TargetUrl))
CompositingEntry == HtmlTraceEvent("Compositing", 0, 1, None)
LayoutSlice ==
    <<TracePacket(None, 5, Some(TrackEvent(1, "TYPE_SLICE_BEGIN", Some("LayoutPerform"), UrlAnnotation))),
      TracePacket(None, 6, Some(TrackEvent(1, "TYPE_SLICE_END", None, EmptyMap)))>>
Manifest(html, perfetto) == [html |-> html, perfetto |-> perfetto]
ServoFiles ==
    {SampleFile(FALSE, None), SampleFile(TRUE, None),
     SampleFile(TRUE, Some(Manifest(<<LayoutEntry(TargetUrl), PaintEntry>>, LayoutSlice))),
     SampleFile(TRUE, Some(Manifest(<<LayoutEntry(OtherUrl)>>, LayoutSlice))),
     SampleFile(TRUE, Some(Manifest(<<LayoutEntry(TargetUrl)>>, SubSeq(LayoutSlice, 2, 2)))),
     SampleFile(TRUE, Some(Manifest(<<CompositingEntry, LayoutEntry(TargetUrl)>>, LayoutSlice))),
     SampleFile(TRUE, Some(Manifest(<<LayoutEntry(TargetUrl)>>,
         <<TracePacket(Some(1), 5, Some(OtherData))>> \o LayoutSlice)))}

InitBatch ==
    /\ overflow_checks \in BOOLEAN
    /\ IdleMerge
    /\ IdleSummary
    /\ engine \in {"chromium", "servo"}
    /\ relevant_events = << >>
    /\ metric = NotCalled
    /\ IdleSample
    /\ IdleBatch
    /\ IdleConvert

PushPath ==
    /\ samples = NotCalled
    /\ Len(paths) < MaxPaths
    /\ \E f \in (IF engine = "chromium" THEN ChromiumFiles ELSE ServoFiles) :
          paths' = Append(paths, f)
    /\ UNCHANGED <<overflow_checks, samples, mergeVars, summaryVars,
                   metricVars, sampleVars, convertVars>>

CallAnalyseSamples ==
    /\ samples = NotCalled
    /\ samples' = AnalyseSamples(engine, paths, TargetUrl, overflow_checks)
    /\ UNCHANGED <<overflow_checks, paths, mergeVars, summaryVars,
                   metricVars, sampleVars, convertVars>>

NextBatch ==
    \/ PushPath
    \/ CallAnalyseSamples

SpecBatch == InitBatch /\ [][NextBatch]_vars

(***************************************************************************)
(* SpecStack: the packets of one Perfetto trace are read from a small set  *)
(* of slice-begins, slice-ends, other track events and other packets on    *)
(* two tracks, then analyse_perfetto_trace decodes them.                   *)
(***************************************************************************)
\* <<timestamp, data>> of the packets
StackPacketKinds ==
    {<<0, Some(TrackEvent(1, "TYPE_SLICE_BEGIN", Some("LayoutPerform"), UrlAnnotation))>>,
     <<1, Some(TrackEvent(1, "TYPE_SLICE_BEGIN", Some("ScriptEvaluate"), EmptyMap))>>,
     <<0, Some(TrackEvent(2, "TYPE_SLICE_BEGIN", Some("LayoutPerform"), EmptyMap))>>,
     <<0, Some(TrackEvent(1, "TYPE_SLICE_END", None, EmptyMap))>>,
     <<1, Some(TrackEvent(1, "TYPE_SLICE_END", Some("LayoutPerform"), EmptyMap))>>,
     <<1, Some(TrackEvent(2, "TYPE_SLICE_END", None, EmptyMap))>>,
     <<0, Some(TrackEvent(1, "TYPE_INSTANT", Some("LayoutPerform"), EmptyMap))>>,
     <<1, Some(TrackEvent(2, "TYPE_COUNTER", None, EmptyMap))>>,
     <<0, Some(OtherData)>>,
     <<0, None>>}
StackPackets ==
    {TracePacket(None, k[1], k[2]) : k \in StackPacketKinds}
    \cup {TracePacket(Some(1), 0, Some(OtherData))}

ReadStackPacket ==
    /\ analysis = NotCalled
    /\ Len(packets) < MaxStackPackets
    /\ \E p \in StackPackets : packets' = Append(packets, p)
    /\ UNCHANGED <<overflow_checks, traceEvents, window_TRACES, analysis, mergeVars,
                   summaryVars, metricVars, batchVars,
                   convertVars>>

NextStack ==
    \/ ReadStackPacket
    \/ CallAnalysePerfettoTrace

SpecStack == InitDecode /\ [][NextStack]_vars

(***************************************************************************)
(* SpecFrame: one TraceEvent with any args is read, then its frame() is    *)
(* asked for.                                                              *)
(***************************************************************************)
FrameIds == {"A", "B", "C"}
OptionalFrames == {None} \cup {Some(f) : f \in FrameIds}
\* args.data and args.beginData: absent, or an object with or without frame
FrameObjects == {None} \cup {Some(Data(None, None, f)) : f \in OptionalFrames}
FrameArgs ==
    {Args(d, b, f) : d \in FrameObjects, b \in FrameObjects,
                     f \in OptionalFrames}

InitFrame ==
    /\ overflow_checks \in BOOLEAN
    /\ IdleMerge
    /\ IdleSummary
    /\ IdleMetric
    /\ IdleBatch
    /\ IdleConvert
    /\ traceEvents \in
          {<<JsonTraceEvent("Layout", "devtools.timeline", 0, Some(1), a)>> :
              a \in FrameArgs}
    /\ packets = << >>
    /\ window_TRACES = << >>
    /\ analysis = NotCalled

CallFrame ==
    /\ analysis = NotCalled
    /\ analysis' = [kind |-> "Ok", value |-> Frame(traceEvents[1])]
    /\ UNCHANGED <<overflow_checks, traceEvents, packets, window_TRACES,
                   mergeVars, summaryVars, metricVars, batchVars,
                   convertVars>>

NextFrame == CallFrame

SpecFrame == InitFrame /\ [][NextFrame]_vars

(***************************************************************************)
(* SpecTryFrom: one entry of window.TRACES is read, then converted to an   *)
(* Event.                                                                  *)
(***************************************************************************)
HtmlCategories == InstantaneousNames \cup {"LayoutPerform", "ScriptParseHTML"}
HtmlEntries ==
    {HtmlTraceEvent(c, s, e, None) :
        c \in HtmlCategories, s \in 0..MaxHtmlTime, e \in 0..MaxHtmlTime}

InitTryFrom ==
    /\ overflow_checks \in BOOLEAN
    /\ IdleMerge
    /\ IdleSummary
    /\ IdleMetric
    /\ IdleBatch
    /\ IdleConvert
    /\ traceEvents = << >>
    /\ packets = << >>
    /\ window_TRACES \in {<<e>> : e \in HtmlEntries}
    /\ analysis = NotCalled

CallTryFrom ==
    /\ analysis = NotCalled
    /\ analysis' = TryFromHtmlTraceEvent(window_TRACES[1], overflow_checks)
    /\ UNCHANGED <<overflow_checks, traceEvents, packets, window_TRACES,
                   mergeVars, summaryVars, metricVars, batchVars,
                   convertVars>>

NextTryFrom == CallTryFrom

SpecTryFrom == InitTryFrom /\ [][NextTryFrom]_vars

(***************************************************************************)
(* SpecEndToEnd: the trace of one page load with one navigationStart, one  *)
(* fetchStart, one responseEnd, one loadEventEnd and two ParseHTML spans,  *)
(* all of the target document, is read; then analyse_sample analyses it.   *)
(***************************************************************************)
\* the timestamps of navigationStart, fetchStart, responseEnd, loadEventEnd
LoadTimes ==
    {t \in [1..4 -> 0..MaxLoadTime] : \A i \in 1..3 : t[i] <= t[i + 1]}
\* every Occurrence names the document and the frame; the target URL is on
\* the navigationStart only, or on every Occurrence
EndToEndArgs(url_on_all) == IF url_on_all THEN AnchorArgs ELSE DocumentArgs
EndToEndTrace(t, url_on_all) ==
    <<JsonTraceEvent("navigationStart", "blink.user_timing", t[1], None, AnchorArgs),
      JsonTraceEvent("fetchStart", "blink.user_timing", t[2], None, EndToEndArgs(url_on_all)),
      JsonTraceEvent("responseEnd", "blink.user_timing", t[3], None, EndToEndArgs(url_on_all)),
      JsonTraceEvent("loadEventEnd", "blink.user_timing", t[4], None, EndToEndArgs(url_on_all)),
      JsonTraceEvent("ParseHTML", "devtools.timeline", t[3], Some(10000), EndToEndArgs(url_on_all)),
      JsonTraceEvent("ParseHTML", "devtools.timeline", t[4], Some(5000), EndToEndArgs(url_on_all))>>

InitEndToEnd ==
    /\ overflow_checks \in BOOLEAN
    /\ IdleMerge
    /\ IdleSummary
    /\ IdleMetric
    /\ IdleBatch
    /\ IdleConvert
    /\ traceEvents \in
          {EndToEndTrace(t, a) : t \in LoadTimes, a \in BOOLEAN}
    /\ packets = << >>
    /\ window_TRACES = << >>
    /\ analysis = NotCalled

CallAnalyseSampleChromium ==
    /\ analysis = NotCalled
    /\ analysis' = AnalyseSampleChromium(SampleFile(TRUE, Some(traceEvents)),
                                         TargetUrl, overflow_checks)
    /\ UNCHANGED <<overflow_checks, traceEvents, packets, window_TRACES,
                   mergeVars, summaryVars, metricVars, batchVars,
                   convertVars>>

NextEndToEnd == CallAnalyseSampleChromium

SpecEndToEnd == InitEndToEnd /\ [][NextEndToEnd]_vars

(***************************************************************************)
(* SpecFormat: a Summary<f64> is given, then one of its values is          *)
(* formatted.  The values are halves of an integer number of s, ms, us or  *)
(* ns around the powers of ten.  A value whose decimal expansion has a 5   *)
(* right after the last printed digit, and that is no f64, is left out:    *)
(* its rendering depends on the binary rounding of the f64.                *)
(***************************************************************************)
\* twice the value: 10^p - 1/2, 10^p, 10^p + 1/2, and 0, 1/2 and 1234
FormatMantissas ==
    {0, 1, 2468}
    \cup {2 * Pow10(p) + j : p \in 0..MaxDigits, j \in {-1, 0, 1}}
UnitDivisors == {1, 1000, 1000000, 1000000000}
FormatValues ==
    {Frac(p[1], 2 * p[2]) :
        p \in {q \in FormatMantissas \X UnitDivisors :
                  q[2] = 1 \/ q[1] < 2000 \/ q[1] % 2 = 0}}
\* the mean and the stdev, the min and the max of the Summary to format
FormatSummaries ==
    {[kind |-> "Ok", n |-> 2, mean |-> x, stdev |-> y, min |-> y, max |-> x] :
        x \in FormatValues, y \in {Frac(1, 2000), Frac(15, 1)}}

InitFormat ==
    /\ overflow_checks \in BOOLEAN
    /\ IdleMerge
    /\ IdleMetric
    /\ IdleSample
    /\ IdleBatch
    /\ IdleConvert
    /\ individuals = << >>
    /\ summary \in FormatSummaries

CallFmtMean ==
    /\ metric = NotCalled
    /\ metric' = [name |-> "fmt_mean", of |-> summary.mean,
                  result |-> FmtMean(summary)]
    /\ UNCHANGED <<overflow_checks, engine, relevant_events, mergeVars,
                   summaryVars, sampleVars, batchVars,
                   convertVars>>

CallFmtStdev ==
    /\ metric = NotCalled
    /\ metric' = [name |-> "fmt_stdev", of |-> summary.stdev,
                  result |-> FmtStdev(summary)]
    /\ UNCHANGED <<overflow_checks, engine, relevant_events, mergeVars,
                   summaryVars, sampleVars, batchVars,
                   convertVars>>

CallFmtMin ==
    /\ metric = NotCalled
    /\ metric' = [name |-> "fmt_min", of |-> summary.min,
                  result |-> FmtMin(summary)]
    /\ UNCHANGED <<overflow_checks, engine, relevant_events, mergeVars,
                   summaryVars, sampleVars, batchVars,
                   convertVars>>

CallFmtMax ==
    /\ metric = NotCalled
    /\ metric' = [name |-> "fmt_max", of |-> summary.max,
                  result |-> FmtMax(summary)]
    /\ UNCHANGED <<overflow_checks, engine, relevant_events, mergeVars,
                   summaryVars, sampleVars, batchVars,
                   convertVars>>

NextFormat ==
    \/ CallFmtMean
    \/ CallFmtStdev
    \/ CallFmtMin
    \/ CallFmtMax

SpecFormat == InitFormat /\ [][NextFormat]_vars

(***************************************************************************)
(* SpecConvert: analyse_sample on one Chromium sample directory.  The jobs  *)
(* of par_iter() are interleaved in every order; SpecConvertFair adds that  *)
(* every job a worker can take is taken and every traceconv that was        *)
(* spawned exits.                                                           *)
(***************************************************************************)
StemNames == <<"chrome1", "chrome2", "chrome3", "chrome4">>
TraceStems == {StemNames[i] : i \in 1..MaxTraces}
SampleFiles ==
    {Path(stem, extension) : stem \in TraceStems, extension \in {"pftrace", "json"}}
        \cup {Path("summaries", "json")}

InitConvert ==
    /\ overflow_checks \in BOOLEAN
    /\ IdleMerge
    /\ IdleSummary
    /\ IdleMetric
    /\ IdleSample
    /\ IdleBatch
    /\ sample_dir \in SUBSET SampleFiles
    /\ pc = "read_dir"
    /\ convert_jobs = << >>
    /\ traceconv_results = << >>
    /\ conversions = << >>
    /\ outcome = NotCalled

\* The first read_dir loop fills convert_jobs.
ScheduleConversions ==
    /\ pc = "read_dir"
    /\ convert_jobs' \in ReadDirOrders(ConvertJobs(sample_dir))
    /\ traceconv_results' = [j \in 1..Cardinality(ConvertJobs(sample_dir)) |-> "Pending"]
    /\ pc' = "par_iter"
    /\ UNCHANGED <<overflow_checks, sample_dir, conversions, outcome, mergeVars,
                   summaryVars, metricVars, sampleVars, batchVars>>

\* read_dir, an entry or exists fails: analyse_sample returns the error.
ReadDirFails ==
    /\ pc = "read_dir"
    /\ outcome' = Err("read_dir")
    /\ pc' = "returned"
    /\ UNCHANGED <<overflow_checks, sample_dir, convert_jobs, traceconv_results,
                   conversions, mergeVars, summaryVars, metricVars, sampleVars,
                   batchVars>>

\* A worker takes job j and convert_pftrace_to_json spawns traceconv.
StartConversion(j) ==
    /\ pc = "par_iter"
    /\ j \in DOMAIN traceconv_results
    /\ traceconv_results[j] = "Pending"
    /\ traceconv_results' = [traceconv_results EXCEPT ![j] = "Running"]
    /\ conversions' = Append(conversions, convert_jobs[j][2])
    /\ UNCHANGED <<overflow_checks, sample_dir, pc, convert_jobs, outcome,
                   mergeVars, summaryVars, metricVars, sampleVars, batchVars>>

\* traceconv exits: with success it has written json_path, otherwise it may
\* or may not have left the file behind.
FinishConversion(j) ==
    /\ pc = "par_iter"
    /\ j \in DOMAIN traceconv_results
    /\ traceconv_results[j] = "Running"
    /\ \E success, written \in BOOLEAN :
          /\ success => written
          /\ traceconv_results' =
                 [traceconv_results EXCEPT ![j] = IF success THEN "Ok" ELSE "Err"]
          /\ sample_dir' =
                 IF written THEN sample_dir \cup {convert_jobs[j][2]} ELSE sample_dir
    /\ UNCHANGED <<overflow_checks, pc, convert_jobs, conversions, outcome,
                   mergeVars, summaryVars, metricVars, sampleVars, batchVars>>

\* collect::<Vec<_>>() returns traceconv_results.
CollectResults ==
    /\ pc = "par_iter"
    /\ Collected(traceconv_results)
    /\ pc' = "inspect"
    /\ UNCHANGED <<overflow_checks, sample_dir, convert_jobs, traceconv_results,
                   conversions, outcome, mergeVars, summaryVars, metricVars,
                   sampleVars, batchVars>>

\* for result in traceconv_results { result?; }
InspectResults ==
    /\ pc = "inspect"
    /\ IF FirstErr(traceconv_results) # None
       THEN /\ outcome' = Err("Process failed")
            /\ pc' = "returned"
       ELSE /\ outcome' = outcome
            /\ pc' = "compute_summaries"
    /\ UNCHANGED <<overflow_checks, sample_dir, convert_jobs, traceconv_results,
                   conversions, mergeVars, summaryVars, metricVars, sampleVars,
                   batchVars>>

\* The second read_dir loop, compute_summaries and the two output files.
ComputeSummaries ==
    /\ pc = "compute_summaries"
    /\ \E computed \in BOOLEAN :
          IF computed
          THEN /\ outcome' = [kind |-> "Ok", args |-> SummaryArgs(sample_dir)]
               /\ sample_dir' = sample_dir \cup {Path("summaries", "json"),
                                                 Path("summaries", "txt")}
          ELSE /\ outcome' = Err("compute_summaries")
               /\ sample_dir' = sample_dir
    /\ pc' = "returned"
    /\ UNCHANGED <<overflow_checks, convert_jobs, traceconv_results, conversions,
                   mergeVars, summaryVars, metricVars, sampleVars, batchVars>>

NextConvert ==
    \/ ScheduleConversions
    \/ ReadDirFails
    \/ \E j \in 1..MaxTraces : StartConversion(j)
    \/ \E j \in 1..MaxTraces : FinishConversion(j)
    \/ CollectResults
    \/ InspectResults
    \/ ComputeSummaries

SpecConvert == InitConvert /\ [][NextConvert]_vars

FairConvert ==
    /\ \A j \in 1..MaxTraces : WF_vars(StartConversion(j))
    /\ \A j \in 1..MaxTraces : WF_vars(FinishConversion(j))

SpecConvertFair == SpecConvert /\ FairConvert

(***************************************************************************)
(* Claims about generate_merged_events.                                    *)
(***************************************************************************)
Horizon == MaxTime + MaxDur + 1
MergeCalled == merged # NotCalled
IsSpan(e) == IsSome(e.duration)
SpanStart(e) == e.start
SpanStop(e) == e.start + e.duration[1]
\* instant t lies in the half-open interval of span e
Covers(e, t) == IsSpan(e) /\ SpanStart(e) <= t /\ t < SpanStop(e)
InputCovers(t) == \E i \in 1..Len(events) : Covers(events[i], t)
Intervals(evs) == [i \in 1..Len(evs) |-> <<evs[i].start, evs[i].duration>>]

\* C1: the output spans are exactly the maximal runs of the union of the
\* input intervals [start, start+duration): every covered instant lies in
\* an output span and every instant of an output span is covered; an output
\* span is bounded by uncovered instants on both sides (so overlapping and
\* touching inputs share one output, and an uncovered gap separates two
\* outputs); no two output spans overlap.
C1_MergeIsUnionOfIntervals ==
    MergeCalled =>
        /\ merged.kind = "Ok"
        /\ LET out == merged.events
           IN  /\ \A j \in 1..Len(out) :
                     IsSpan(out[j]) /\ SpanStart(out[j]) < SpanStop(out[j])
               /\ \A t \in 0..Horizon :
                     InputCovers(t) <=>
                         \E j \in 1..Len(out) : Covers(out[j], t)
               /\ \A j \in 1..Len(out) :
                     /\ ~InputCovers(SpanStart(out[j]) - 1)
                     /\ ~InputCovers(SpanStop(out[j]))
               /\ \A j, k \in 1..Len(out) :
                     j # k => \/ SpanStop(out[j]) <= SpanStart(out[k])
                              \/ SpanStop(out[k]) <= SpanStart(out[j])

\* C1 witness: two touching spans [a,b), [b,c) were merged into one [a,c)
C1_Witness_TouchingMerged ==
    /\ MergeCalled
    /\ merged.kind = "Ok"
    /\ Len(merged.events) = 1
    /\ \E i, j \in 1..Len(events) :
          /\ IsSpan(events[i]) /\ IsSpan(events[j])
          /\ SpanStart(events[i]) < SpanStop(events[i])
          /\ SpanStop(events[i]) = SpanStart(events[j])
          /\ SpanStart(events[j]) < SpanStop(events[j])
          /\ merged.events[1].start = SpanStart(events[i])
          /\ SpanStop(merged.events[1]) = SpanStop(events[j])

\* C4: instantaneous Events (duration None) contribute no interval: the
\* output has the same number of spans, with the same starts and durations,
\* as the output for the input with every instantaneous Event removed.
C4_InstantaneousIgnored ==
    MergeCalled =>
        LET spansOnly == SelectSeq(events, IsSpan)
            alone == GenerateMergedEvents(spansOnly, MergedName,
                                          overflow_checks)
        IN  /\ merged.kind = "Ok"
            /\ alone.kind = "Ok"
            /\ Intervals(merged.events) = Intervals(alone.events)

\* C4 witness: an instantaneous Event outside every span, and one span
C4_Witness_InstantBesideSpan ==
    /\ MergeCalled
    /\ merged.kind = "Ok"
    /\ Len(merged.events) = 1
    /\ \E i \in 1..Len(events) :
          /\ ~IsSpan(events[i])
          /\ ~InputCovers(events[i].start)
          /\ events[i].start < merged.events[1].start

Permute(evs, p) == [i \in 1..Len(evs) |-> evs[p[i]]]

\* C2: generate_merged_events returns the same list of Events (names,
\* starts, durations and metadata) for every permutation of its input.
C2_OrderIndependent ==
    MergeCalled =>
        \A p \in Permutations(1..Len(events)) :
            GenerateMergedEvents(Permute(events, p), MergedName,
                                 overflow_checks) = merged

\* the input Events lying inside the output span o
Contributors(o) ==
    {i \in 1..Len(events) :
        /\ SpanStart(o) <= events[i].start
        /\ (IF IsSpan(events[i]) THEN SpanStop(events[i])
                                 ELSE events[i].start) <= SpanStop(o)}

\* C3: every output Event carries the union of the metadata of the input
\* Events lying inside it: it has exactly their keys, each with a value one
\* of them gives that key.
C3_MetadataOfContributors ==
    MergeCalled /\ merged.kind = "Ok" =>
        \A j \in 1..Len(merged.events) :
            LET o == merged.events[j]
            IN  /\ DOMAIN o.metadata =
                      UNION {DOMAIN events[i].metadata : i \in Contributors(o)}
                /\ \A k \in DOMAIN o.metadata :
                      \E i \in Contributors(o) :
                          /\ k \in DOMAIN events[i].metadata
                          /\ events[i].metadata[k] = o.metadata[k]

\* the net change of the active count over the groups of `times`
RECURSIVE NetChange(_, _)
NetChange(edges, times) ==
    IF times = {} THEN 0
    ELSE LET u == MinOf(times)
         IN  ApplyEdges(0, edges[u], 1, FALSE).count
                 + NetChange(edges, times \ {u})
\* new_active_count after the first k edges of the group of time t, as an
\* unbounded integer
RunningCount(edges, t, k) ==
    NetChange(edges, {u \in DOMAIN edges : u < t})
        + ApplyEdges(0, SubSeq(edges[t], 1, k), 1, FALSE).count
IsPoint(e) == EventEnd(e) = e.start

\* C27: during the sweep the unsigned active count never goes below zero:
\* after every single edge of every timestamp group the count is at least
\* zero, whatever the input Events (instantaneous and zero-length ones
\* included) and their order, and the call does not panic.
C27_ActiveCountNeverNegative ==
    MergeCalled =>
        /\ merged.kind # "Panic"
        /\ LET edges == CollectEdges(events, 1, EmptyMap, EmptyMap).edges
           IN  \A t \in DOMAIN edges : \A k \in 1..Len(edges[t]) :
                   RunningCount(edges, t, k) >= 0

\* C27 witness: an instantaneous or zero-length Event comes first in the
\* input and shares its timestamp with the end of a span
C27_Witness_PointAtSpanEdge ==
    /\ MergeCalled
    /\ merged.kind = "Ok"
    /\ Len(events) = 2
    /\ IsPoint(events[1])
    /\ ~IsPoint(events[2])
    /\ EventEnd(events[2]) = events[1].start

\* C28: the Events returned are in strictly increasing start order, each
\* ends strictly before the next one starts, each has a strictly positive
\* duration, and each is named merged_name.
C28_OutputSortedDisjointPositive ==
    (MergeCalled /\ merged.kind = "Ok") =>
        LET out == merged.events
        IN  /\ \A j \in 1..Len(out) :
                  /\ out[j].name = MergedName
                  /\ IsSpan(out[j])
                  /\ Unwrap(out[j].duration) > 0
            /\ \A j \in 1..(Len(out) - 1) :
                  /\ SpanStart(out[j]) < SpanStart(out[j + 1])
                  /\ SpanStop(out[j]) < SpanStart(out[j + 1])

\* C28 witness: two spans with a gap between them gave two Events
C28_Witness_TwoOutputs ==
    /\ MergeCalled
    /\ merged.kind = "Ok"
    /\ Len(merged.events) = 2

(***************************************************************************)
(* Claims about Analysis::summary.                                         *)
(***************************************************************************)
SummaryCalled == summary # NotCalled
Contributing == {i \in 1..Len(individuals) : IsSome(individuals[i])}
RECURSIVE SumOfProjections(_)
SumOfProjections(I) ==
    IF I = {} THEN 0
    ELSE LET i == CHOOSE j \in I : TRUE
         IN  individuals[i][1] + SumOfProjections(I \ {i})

\* C5: with no contributing Sample (an empty Analysis, or the projection
\* absent for every Sample) summary fails with an error value: it returns
\* no Summary and does not crash.
C5_NoContributorIsError ==
    SummaryCalled /\ Contributing = {} => summary.kind = "Err"

\* C6: with exactly one contributing Sample, of value x, summary has
\* min = max = mean = x and the undefined standard deviation is an error:
\* it returns no Summary whose stdev is NaN or a division by zero.
C6_OneContributorStdevIsError ==
    SummaryCalled /\ Cardinality(Contributing) = 1 =>
        /\ summary.kind # "Panic"
        /\ summary.kind = "Ok" =>
              LET x == Frac(SumOfProjections(Contributing), 1)
              IN  /\ summary.mean = x /\ summary.min = x /\ summary.max = x
                  /\ summary.stdev # NaN /\ summary.stdev # Inf

\* C7: a returned Summary reports n as the number of contributing Samples,
\* so n <= |Samples| and mean * n is the sum of the contributing values.
C7_CountsContributors ==
    SummaryCalled /\ summary.kind = "Ok" =>
        /\ summary.n = Cardinality(Contributing)
        /\ summary.n <= Len(individuals)
        /\ FMul(summary.mean, Frac(summary.n, 1)) =
              Frac(SumOfProjections(Contributing), 1)

(***************************************************************************)
(* Claims about the relative metrics.                                      *)
(***************************************************************************)
MetricCalled == metric # NotCalled
Named(name) == {i \in 1..Len(relevant_events) : relevant_events[i].name = name}
AnchorCount == Cardinality(Named(metric.anchor))
TargetCount == Cardinality(Named(metric.target))
\* the timestamp of relevant_events[i], as a Duration
StartOf(i) ==
    IF engine = "chromium" THEN 1000 * relevant_events[i].ts
    ELSE relevant_events[i].start
TheAnchor == CHOOSE i \in Named(metric.anchor) : TRUE
TheTarget == CHOOSE i \in Named(metric.target) : TRUE
FirstAnchor == CHOOSE i \in Named(metric.anchor) :
                   \A j \in Named(metric.anchor) : i <= j
TargetIsInstantaneous ==
    engine = "servo" => ~IsSome(relevant_events[TheTarget].duration)
ReturnsEvent(r) == r.kind \in {"Ok", "Some"}

\* C8: (with the anchor found) the relative metric returns 'absent', not an
\* error, when no Event has the target name, and an error when two or more
\* Events have it.
C8_AbsentOrHardError ==
    MetricCalled /\ AnchorCount = 1 =>
        /\ TargetCount = 0 => metric.result.kind = "None"
        /\ TargetCount >= 2 => metric.result.kind = "Err"

\* C9: with exactly one anchor and exactly one (instantaneous) target, the
\* metric returns the Event named result_name with start = anchor.start and
\* duration = target.start - anchor.start >= 0 when the target does not
\* start before the anchor, and an error (no crash, no negative or wrapped
\* duration) when it does.
C9_DurationFromAnchor ==
    MetricCalled /\ AnchorCount = 1 /\ TargetCount = 1
                 /\ TargetIsInstantaneous =>
        IF StartOf(TheTarget) >= StartOf(TheAnchor)
        THEN /\ ReturnsEvent(metric.result)
             /\ metric.result.event.name = metric.result_name
             /\ metric.result.event.start = StartOf(TheAnchor)
             /\ metric.result.event.duration =
                   Some(StartOf(TheTarget) - StartOf(TheAnchor))
        ELSE metric.result.kind = "Err"

DurOf(i) ==
    LET e == relevant_events[i]
        d == IF engine = "chromium" THEN e.dur ELSE e.duration
    IN  IF IsSome(d) THEN d[1] ELSE 0
RECURSIVE ExactTotal(_)
ExactTotal(I) ==
    IF I = {} THEN 0
    ELSE LET i == CHOOSE j \in I : TRUE IN DurOf(i) + ExactTotal(I \ {i})
TotalOverflows == engine = "chromium" /\ ExactTotal(Named(metric.name)) >= UsizeLimit

\* C11: sum_duration(events, name) is the sum of the durations of the Events
\* named name (Events without a duration add nothing, no such Event gives
\* zero), and an overflow of the total is reported as an error value: the
\* function neither crashes nor returns a wrapped total.
C11_SumDuration ==
    MetricCalled =>
        IF TotalOverflows THEN metric.result.kind = "Err"
        ELSE /\ metric.result.kind = "Ok"
             /\ metric.result.value =
                   (IF engine = "chromium" THEN 1000 ELSE 1)
                       * ExactTotal(Named(metric.name))

(***************************************************************************)
(* Claims about the scope resolution of a generic trace (SpecScope).       *)
(***************************************************************************)
Analysed == analysis # NotCalled
\* the analysis got as far as filtering by the anchor's ids
Resolved == Analysed /\ analysis.kind \in {"Ok", "Panic"}
\* a category the claim's URL-agnostic allow-list holds: the compositor's
UrlAgnosticCategories == {"cc"}

\* C12: an Occurrence is retained (before the duplicate removal) iff its
\* navigation id is the anchor's, or its frame id is the anchor's, or its
\* category is in the URL-agnostic allow-list.
C12_RetainedIffIdOrAllowListed ==
    Resolved =>
        analysis.scoped =
            SelectSeq(analysis.all_events,
                      LAMBDA e : \/ NavigationId(e) = Some(analysis.navigation_id)
                                 \/ Frame(e) = Some(analysis.frame)
                                 \/ e.cat \in UrlAgnosticCategories)

\* the elements of seq at the indices I, in the order of seq
RECURSIVE Restrict(_, _)
Restrict(seq, I) ==
    IF I = {} THEN << >>
    ELSE LET i == CHOOSE j \in I : \A k \in I : j <= k
         IN  <<seq[i]>> \o Restrict(seq, I \ {i})
BookkeepingNames ==
    {"navigationStart", "responseEnd", "domLoading", "domInteractive",
     "domContentLoadedEventStart", "domContentLoadedEventEnd", "domComplete"}
\* scoped[i] is the chronologically first retained Occurrence of its name
FirstOfItsName(i) ==
    \A j \in 1..(i - 1) : analysis.scoped[j].name # analysis.scoped[i].name

\* C13: after the scope filter, of each duplicated-bookkeeping name exactly
\* the chronologically first retained Occurrence is removed; every later
\* Occurrence of that name and every Occurrence of another name is kept, in
\* unchanged order.
C13_FirstBookkeepingRemoved ==
    Resolved =>
        analysis.relevant_events =
            Restrict(analysis.scoped,
                     {i \in 1..Len(analysis.scoped) :
                         ~(/\ analysis.scoped[i].name \in BookkeepingNames
                           /\ FirstOfItsName(i))})
\* a bookkeeping name retained twice beside another name: one is removed
C13_Witness_LaterDuplicateKept ==
    /\ Resolved
    /\ Len(analysis.scoped) = 3
    /\ Len(analysis.relevant_events) = 2
    /\ analysis.relevant_events[1].name = "DrawFrame"
    /\ analysis.relevant_events[2].name = "navigationStart"

\* the Occurrences of the trace whose document URL is the target URL
WithTargetUrl ==
    {i \in 1..Len(traceEvents) :
        DocumentLoaderUrl(traceEvents[i]) = Some(TargetUrl)}
\* the first of them in chronological order (file order among equal times)
AnchorIndex ==
    CHOOSE i \in WithTargetUrl :
        \A j \in WithTargetUrl :
            \/ traceEvents[i].ts < traceEvents[j].ts
            \/ traceEvents[i].ts = traceEvents[j].ts /\ i <= j
AnchorLacksId ==
    \/ NavigationId(traceEvents[AnchorIndex]) = None
    \/ Frame(traceEvents[AnchorIndex]) = None

\* C14: the analysis of a sample fails with an error, and gives no Sample,
\* when no Occurrence's document URL is the target URL, or when the anchor
\* (the chronologically first Occurrence with that URL) lacks a navigation
\* id or a frame id.
C14_NoAnchorIsError ==
    Analysed =>
        IF WithTargetUrl = {} THEN analysis.kind = "Err"
        ELSE AnchorLacksId => analysis.kind = "Err"
\* the anchor lacks an id although a later Occurrence with the URL has both
C14_Witness_AnchorWithoutId ==
    /\ Analysed
    /\ analysis.kind = "Err"
    /\ \E i \in WithTargetUrl :
          /\ i # AnchorIndex
          /\ NavigationId(traceEvents[i]) # None
          /\ Frame(traceEvents[i]) # None

(***************************************************************************)
(* Claims about the binary decoder (SpecDecode).                           *)
(***************************************************************************)
\* packets[j] carries a track event of the given type
IsTrackEvent(j, type) ==
    IF packets[j].data = None THEN FALSE
    ELSE IF packets[j].data[1].kind # "TrackEvent" THEN FALSE
         ELSE packets[j].data[1].type = type
TrackOf(j) == packets[j].data[1].track_uuid
DefaultClock(j) == packets[j].timestamp_clock_id = None
\* how many track events of that type the track has among packets a..b
CountOnTrack(type, t, a, b) ==
    Cardinality({k \in a..b : IF IsTrackEvent(k, type) THEN TrackOf(k) = t
                                                       ELSE FALSE})
\* the slice-begins of the track of packets[j] that are still open at j:
\* as many ends as begins lie between them and j (parenthesis matching)
OpenBegins(j) ==
    {i \in 1..(j - 1) :
        IF ~IsTrackEvent(i, "TYPE_SLICE_BEGIN") THEN FALSE
        ELSE IF TrackOf(i) # TrackOf(j) THEN FALSE
        ELSE CountOnTrack("TYPE_SLICE_BEGIN", TrackOf(j), i + 1, j - 1)
                = CountOnTrack("TYPE_SLICE_END", TrackOf(j), i + 1, j - 1)}
MostRecentOpenBegin(j) == CHOOSE i \in OpenBegins(j) : \A k \in OpenBegins(j) : k <= i
\* the packets the loop got to: those processed and the one it failed at
Reached == 1..(IF analysis.at < Len(packets) THEN analysis.at + 1 ELSE Len(packets))
\* the slice-ends (on the default clock) that have an open begin
PairedEnds ==
    {j \in Reached : IF IsTrackEvent(j, "TYPE_SLICE_END") /\ DefaultClock(j)
                     THEN OpenBegins(j) # {} ELSE FALSE}
\* the Occurrence the claim expects for the slice-end packets[j]; a
\* Duration is not negative
ExpectedOccurrence(j) ==
    LET i == MostRecentOpenBegin(j)
    IN  Event(packets[i].data[1].name[1], packets[i].timestamp,
              Some(packets[j].timestamp - packets[i].timestamp),
              packets[i].data[1].debug_annotations)

\* C15: each slice-end is paired with the most recent still-open slice-begin
\* of its own track (LIFO) and emits exactly one Occurrence, with the begin's
\* name and metadata, start = begin timestamp and duration = end timestamp
\* minus begin timestamp; begins and ends of other tracks in between do not
\* change the pairing.
C15_SliceEndPairsLifo ==
    Analysed =>
        /\ Len(analysis.decoded) = Cardinality(PairedEnds)
        /\ \A j \in PairedEnds :
              LET p == Cardinality({k \in PairedEnds : k <= j})
              IN  /\ analysis.decoded[p] = ExpectedOccurrence(j)
                  /\ packets[j].timestamp >= packets[MostRecentOpenBegin(j)].timestamp

\* the three malformed packets of C16
EndOnEmptyStack(j) ==
    IF IsTrackEvent(j, "TYPE_SLICE_END") /\ DefaultClock(j)
    THEN OpenBegins(j) = {} ELSE FALSE
EndWithOtherName(j) ==
    IF j \in PairedEnds
    THEN IF packets[j].data[1].name = None THEN FALSE
         ELSE packets[j].data[1].name
                 # packets[MostRecentOpenBegin(j)].data[1].name
    ELSE FALSE
NonDefaultClock(j) == ~DefaultClock(j)

\* C16: a slice-end on a track whose stack is empty, a slice-end whose name
\* differs from the name of the begin it pops, and a packet with a
\* non-default clock id each end the decoding in a decode error (an error
\* value), not in an emitted Occurrence and not in a process abort.
C16_MalformedIsDecodeError ==
    Analysed =>
        \A j \in Reached :
            EndOnEmptyStack(j) \/ EndWithOtherName(j) \/ NonDefaultClock(j)
                => analysis.kind = "Err" /\ analysis.at = j - 1

\* packets[j] carries a track event that is neither a slice-begin nor a
\* slice-end
IsNonSliceTrackEvent(j) ==
    IF packets[j].data = None THEN FALSE
    ELSE IF packets[j].data[1].kind # "TrackEvent" THEN FALSE
         ELSE packets[j].data[1].type \notin {"TYPE_SLICE_BEGIN", "TYPE_SLICE_END"}
\* the packets the loop processed in full
Processed == 1..analysis.at
StackOf(tracks, t) == IF t \in DOMAIN tracks THEN tracks[t] ELSE << >>
\* the state of the loop after the processed packets, and after the same
\* packets without the non-slice track events
AfterProcessed ==
    DecodePackets(DecodeInit, SubSeq(packets, 1, analysis.at), 1,
                  overflow_checks)
AfterSlicesOnly ==
    DecodePackets(DecodeInit,
                  Restrict(packets,
                           {j \in Processed : ~IsNonSliceTrackEvent(j)}),
                  1, overflow_checks)

\* C30: the decoder emits exactly one Occurrence per slice-end it processed
\* and nothing else; when every packet was processed, the slice-begins
\* still open stay on their stacks, give no Occurrence and no decode
\* error; the track events that are neither begin nor end leave every
\* track's stack (and the emitted Occurrences) as they were.
C30_OneOccurrencePerSliceEnd ==
    Analysed =>
        /\ Len(analysis.decoded)
              = Cardinality({j \in Processed :
                                IsTrackEvent(j, "TYPE_SLICE_END")})
        /\ analysis.at = Len(packets) =>
              /\ analysis.kind # "Panic"
              /\ analysis.kind = "Err" =>
                    analysis.msg = "No entry with matching .metadata.url! Skipping sample"
              /\ \A t \in TrackUuids :
                    Len(StackOf(analysis.tracks, t))
                        = CountOnTrack("TYPE_SLICE_BEGIN", t, 1, Len(packets))
                          - CountOnTrack("TYPE_SLICE_END", t, 1, Len(packets))
        /\ AfterSlicesOnly.decoded = AfterProcessed.decoded
        /\ \A t \in TrackUuids :
              StackOf(AfterSlicesOnly.tracks, t)
                  = StackOf(AfterProcessed.tracks, t)

\* C30 witness: a slice was closed, another track event was processed while
\* a slice-begin was open, and that begin is still open at the end
C30_Witness_OpenBeginAtEnd ==
    /\ Analysed
    /\ analysis.at = Len(packets)
    /\ Len(analysis.decoded) = 1
    /\ \E t \in TrackUuids : StackOf(analysis.tracks, t) # << >>
    /\ \E j \in 2..Len(packets) :
          /\ IsNonSliceTrackEvent(j)
          /\ StackOf(DecodePackets(DecodeInit, SubSeq(packets, 1, j - 1), 1,
                                   overflow_checks).tracks,
                     packets[j].data[1].track_uuid) # << >>

(***************************************************************************)
(* Claims about real_events (SpecReal).                                    *)
(***************************************************************************)
\* the minimum original timestamp among the Sample's Occurrences
MinOriginalStart ==
    MinOf({StartOf(i) : i \in 1..Len(relevant_events)})

\* C18: for a Sample with at least one Event, the list real_events() returns
\* has minimum start exactly zero, and the start of each of its Events is
\* the original timestamp minus the minimum original timestamp among the
\* Sample's scoped Occurrences.
C18_RebasedToZero ==
    MetricCalled /\ relevant_events # << >> =>
        /\ metric.result.kind = "Ok"
        /\ \E k \in 1..Len(metric.result.events) :
              metric.result.events[k].start = 0
        /\ \A k \in 1..Len(metric.result.events) :
              /\ metric.result.events[k].start >= 0
              /\ \E i \in 1..Len(relevant_events) :
                    /\ relevant_events[i].name = metric.result.events[k].name
                    /\ metric.result.events[k].start
                          = StartOf(i) - MinOriginalStart

(***************************************************************************)
(* Claims about URL-keyed traces (SpecUrlKeyed).                           *)
(***************************************************************************)
\* the analysis is one of a Perfetto trace (it has the decoder's locals)
OfPerfettoTrace == "decoded" \in DOMAIN analysis
UrlExempt == {"Compositing", "IpcReceiver"}
\* the metadata URL of an Occurrence of either format, None without one
MetadataUrl(e) ==
    IF OfPerfettoTrace
    THEN IF "url" \in DOMAIN e.metadata THEN Some(e.metadata["url"]) ELSE None
    ELSE e.metadata
CategoryOf(e) == IF OfPerfettoTrace THEN e.name ELSE e.category

\* C20: in a URL-keyed trace an Occurrence is retained iff its metadata URL
\* is the target URL or its category/name is URL-exempt (Compositing,
\* IpcReceiver); decoding fails when no Occurrence's metadata URL is the
\* target URL, even if URL-exempt Occurrences are there.
C20_RetainedIffUrlOrExempt ==
    Analysed =>
        /\ analysis.scoped =
              SelectSeq(analysis.all_events,
                        LAMBDA e : \/ MetadataUrl(e) = Some(TargetUrl)
                                   \/ CategoryOf(e) \in UrlExempt)
        /\ (\A i \in 1..Len(analysis.all_events) :
                MetadataUrl(analysis.all_events[i]) # Some(TargetUrl))
              => analysis.kind = "Err"
\* only URL-exempt Occurrences are retained, and the decoding fails
C20_Witness_OnlyExemptRetained ==
    /\ Analysed
    /\ analysis.kind = "Err"
    /\ Len(analysis.scoped) = 2
    /\ Len(analysis.all_events) = 3

(***************************************************************************)
(* Claims about the dual-trace merge (SpecDual).                           *)
(***************************************************************************)
Merged == Analysed /\ analysis.kind = "Ok"
HtmlOnly == {"TimeToFirstPaint", "TimeToFirstContentfulPaint", "TimeToInteractive"}
\* the Events of a trace, each re-based against the first Event of the trace
RebasedAgainstFirst(evs) ==
    [i \in 1..Len(evs) |-> [evs[i] EXCEPT !.start = @ - evs[1].start]]
\* the Events the claim expects in the merged list, in some order
ExpectedMerged ==
    RebasedAgainstFirst(analysis.perfetto_trace.relevant_events)
        \o SelectSeq(RebasedAgainstFirst(analysis.html_trace.relevant_events),
                     LAMBDA e : e.name \in HtmlOnly)
Occurrences(seq, e) == Cardinality({i \in 1..Len(seq) : seq[i] = e})
InMergeOrder(p, q) ==
    \/ p.start < q.start
    \/ p.start = q.start /\ OptionLessEq(p.duration, q.duration)

\* C19: the merged list of a dual-trace sample holds every Event of the
\* binary trace and exactly those Events of the HTML trace whose name is in
\* the HTML-only set, each re-based against the first Event of its own
\* trace, sorted by start offset with ties broken by duration.
C19_MergeTakesHtmlOnly ==
    Merged =>
        /\ Len(analysis.relevant_events) = Len(ExpectedMerged)
        /\ \A i \in 1..Len(ExpectedMerged) :
              Occurrences(analysis.relevant_events, ExpectedMerged[i])
                  = Occurrences(ExpectedMerged, ExpectedMerged[i])
        /\ \A i, j \in 1..Len(analysis.relevant_events) :
              i < j => InMergeOrder(analysis.relevant_events[i],
                                    analysis.relevant_events[j])
\* an HTML-only Event is merged in and another HTML Event is left out
C19_Witness_HtmlEventLeftOut ==
    /\ Merged
    /\ Len(analysis.html_trace.relevant_events) = 2
    /\ Len(analysis.perfetto_trace.relevant_events) = 2
    /\ Len(analysis.relevant_events) = 3
    /\ analysis.relevant_events[2].name = "TimeToFirstPaint"

(***************************************************************************)
(* Claims about analyse_samples (SpecBatch).                               *)
(***************************************************************************)
BatchDone == samples # NotCalled
\* what analysing the file paths[i] on its own comes to
OutcomeOf(i) ==
    IF engine = "chromium"
    THEN AnalyseSampleChromium(paths[i], TargetUrl, overflow_checks)
    ELSE AnalyseManifest(paths[i], TargetUrl, overflow_checks)
\* the files that can be read, parsed, decoded and scoped
GoodFiles == {i \in 1..Len(paths) : OutcomeOf(i).kind = "Ok"}

\* C17: analyse_samples never aborts the batch because of one bad input:
\* every file that is unreadable, malformed, or fails decoding or scope
\* resolution is skipped, and the returned list holds exactly the Samples of
\* the remaining files, in input order.
C17_BadFilesAreSkipped ==
    BatchDone =>
        /\ samples.kind = "Ok"
        /\ Len(samples.samples) = Cardinality(GoodFiles)
        /\ \A i \in GoodFiles :
              samples.samples[Cardinality({j \in GoodFiles : j <= i})]
                  = OutcomeOf(i)

\* C29: whenever the anchor is found and has both a navigation id and a
\* frame id, the list of scoped Occurrences left after the duplicate
\* removal is non-empty, so relevant_events[0] is never taken of an empty
\* list (the analysis does not panic there).
C29_TimeOriginExists ==
    Resolved =>
        /\ analysis.relevant_events # << >>
        /\ analysis.kind # "Panic"

(***************************************************************************)
(* Claims about TraceEvent::frame (SpecFrame).                             *)
(***************************************************************************)
\* the three lookup strategies, in the claim's order
FrameStrategies(e) ==
    <<AndThenGet(e.args.data, "frame"),
      AndThenGet(e.args.beginData, "frame"),
      e.args.frame>>
FirstSuccess(strategies) ==
    IF \A i \in 1..Len(strategies) : strategies[i] = None THEN None
    ELSE strategies[CHOOSE i \in 1..Len(strategies) :
                        /\ strategies[i] # None
                        /\ \A j \in 1..(i - 1) : strategies[j] = None]

\* C26: the frame id of a generic trace event is the result of the first
\* strategy that succeeds among args.data.frame, args.beginData.frame and
\* args.frame, tried in that order; it is None only when all three fail.
C26_FrameIsFirstSuccess ==
    Analysed =>
        analysis.value = FirstSuccess(FrameStrategies(traceEvents[1]))

(***************************************************************************)
(* Claims about the conversion of an HtmlTraceEvent (SpecTryFrom).         *)
(***************************************************************************)
\* C25: the conversion of an entry of a category declared instantaneous
\* gives duration None when endTime = startTime and an error when they
\* differ; the conversion of an entry of any other category gives
\* duration Some(endTime - startTime), a Duration (not negative).
C25_DurationByCategory ==
    Analysed =>
        LET entry == window_TRACES[1]
        IN  IF entry.category \in InstantaneousNames
            THEN IF entry.endTime = entry.startTime
                 THEN /\ analysis.kind = "Ok"
                      /\ analysis.event.duration = None
                 ELSE analysis.kind = "Err"
            ELSE /\ analysis.kind = "Ok"
                 /\ entry.endTime - entry.startTime >= 0
                 /\ analysis.event.duration
                       = Some(FromNanos(entry.endTime - entry.startTime))

(***************************************************************************)
(* Claims about analyse_sample of chromium.rs as a whole (SpecEndToEnd).   *)
(***************************************************************************)
TsOf(name) ==
    traceEvents[CHOOSE i \in 1..Len(traceEvents) : traceEvents[i].name = name].ts

\* C21: for the trace of navigationStart, fetchStart, responseEnd,
\* loadEventEnd, ParseHTML (dur 10000) and ParseHTML (dur 5000), all of the
\* target document, the analysis succeeds, all six Occurrences are retained,
\* the summed duration of ParseHTML is 15000 microseconds, and the metric
\* from fetchStart to loadEventEnd is loadEventEnd.ts - fetchStart.ts.
C21_EndToEnd ==
    Analysed =>
        /\ Len(ResolveScope(traceEvents, TargetUrl).relevant_events) = 6
        /\ analysis.kind = "Ok"
        /\ Len(analysis.relevant_events) = 6
        /\ analysis.durations["ParseHTML"] = FromMicros(15000)
        /\ analysis.total_duration
              = FromMicros(TsOf("loadEventEnd") - TsOf("fetchStart"))

(***************************************************************************)
(* Claims about the formatting of a Summary (SpecFormat).                  *)
(***************************************************************************)
\* the units from the largest to the smallest, and how many make a second
UnitNames == <<"s", "ms", "us", "ns">>
UnitsPerSecond == <<1, 1000, 1000000, 1000000000>>
\* the value x (in seconds) is at least one unit, f of which make a second
AtLeastOne(x, f) ==
    x.n >= (x.d \div f) + (IF x.d % f = 0 THEN 0 ELSE 1)
\* the value is finite and at least one nanosecond: some unit fits
HasUnit(x) == IF IsNum(x) THEN AtLeastOne(x, UnitsPerSecond[4]) ELSE FALSE
LargestUnit(x) ==
    CHOOSE i \in 1..4 :
        /\ AtLeastOne(x, UnitsPerSecond[i])
        /\ \A j \in 1..(i - 1) : ~AtLeastOne(x, UnitsPerSecond[j])
DecimalPlaces(scaled) ==
    IF scaled.n >= 1000 * scaled.d THEN 0
    ELSE IF scaled.n >= 100 * scaled.d THEN 1
    ELSE IF scaled.n >= 10 * scaled.d THEN 2
    ELSE 3

\* C22: fmt_mean, fmt_stdev, fmt_min and fmt_max render a value (of at
\* least one nanosecond) in the largest unit among s, ms, us, ns in which
\* it is at least 1, and print the scaled value with 0 decimal places if it
\* is at least 1000, 1 if at least 100, 2 if at least 10, and 3 otherwise.
C22_UnitAndDecimalPlaces ==
    (MetricCalled /\ HasUnit(metric.of)) =>
        LET i == LargestUnit(metric.of)
            scaled == FMulInt(metric.of, UnitsPerSecond[i])
            dp == DecimalPlaces(scaled)
        IN  /\ metric.result.unit = UnitNames[i]
            /\ metric.result.dp = dp
            /\ metric.result.digits
                  = RoundHalfEven(FMulInt(scaled, Pow10(dp)))

\* C22 witness: 999.5 ms was rendered in ms with one decimal place
C22_Witness_MillisecondsOneDecimal ==
    /\ MetricCalled
    /\ metric.of = Frac(1999, 2000)
    /\ metric.result = [dp |-> 1, digits |-> 9995, unit |-> "ms"]

(***************************************************************************)
(* Claims about the conversion stage of analyse_sample.                     *)
(***************************************************************************)
IsJobFor(job, dir) ==
    /\ job[1] \in dir
    /\ job[1].extension = "pftrace"
    /\ job[2].stem = job[1].stem
    /\ job[2].extension = "json"

AllEnded == \A j \in DOMAIN traceconv_results : traceconv_results[j] \in {"Ok", "Err"}
AllSucceeded == \A j \in DOMAIN traceconv_results : traceconv_results[j] = "Ok"
SomeFailed == \E j \in DOMAIN traceconv_results : traceconv_results[j] = "Err"

\* C23: a conversion job is scheduled for a .pftrace file of the directory
\* only if its .json output does not exist when the directory is read, and in
\* one run no two conversions are started for the same output file: every
\* traceconv spawned belongs to a scheduled job and no output is converted twice.
C23_OneConversionPerMissingOutput ==
    /\ [][pc = "read_dir" /\ pc' = "par_iter" =>
             \A j \in DOMAIN convert_jobs' :
                 /\ IsJobFor(convert_jobs'[j], sample_dir)
                 /\ convert_jobs'[j][2] \notin sample_dir]_vars
    /\ [](\A i \in DOMAIN conversions :
             /\ \E j \in DOMAIN convert_jobs : convert_jobs[j][2] = conversions[i]
             /\ \A k \in DOMAIN conversions : k # i => conversions[k] # conversions[i])

\* One trace already has its json file and is skipped, the other is being
\* converted.
C23_Witness_ExistingOutputSkipped ==
    /\ pc = "par_iter"
    /\ Path("chrome1", "pftrace") \in sample_dir
    /\ Path("chrome1", "json") \in sample_dir
    /\ convert_jobs = <<<<Path("chrome2", "pftrace"), Path("chrome2", "json")>>>>
    /\ conversions = <<Path("chrome2", "json")>>
    /\ traceconv_results = <<"Running">>

====
